---------------------------- MODULE Spec2Model ----------------------------
(***************************************************************************)
(* Tool capability providers of wasmcp/compose-example: calculator,        *)
(* string-utils and system-info.  Each provider answers list_tools and     *)
(* call_tool.  A text is a sequence of Unicode code points; the bytes of   *)
(* a Rust String are its UTF-8 encoding.  Option<T> is a sequence of       *)
(* length 0 (None) or 1 (Some).                                            *)
(***************************************************************************)
EXTENDS Integers, Sequences, FiniteSets, TLC

VARIABLES
    pc,        \* "idle": no invocation in flight; "called": a response is held
    provider,  \* the provider that served the last invocation
    op,        \* "list_tools" or "call_tool"
    request,   \* the request of the last invocation
    response,  \* what the provider returned
    clock,     \* the SystemTime::now() readings taken by the last invocation
    locals,    \* the local variables of the invocations that are still running
    served     \* number of invocations served so far (capped)

vars == <<pc, provider, op, request, response, clock, locals, served>>

(***************************************************************************)
(* Option<T>                                                               *)
(***************************************************************************)
None == <<>>
Some(x) == <<x>>
IsSome(o) == Len(o) = 1
Unwrap(o) == o[1]

Min(a, b) == IF a <= b THEN a ELSE b
Max(a, b) == IF a >= b THEN a ELSE b

(***************************************************************************)
(* Characters.  AsciiTable lists the printable ASCII characters from       *)
(* U+0020 to U+005F; Str turns a tuple of one-character strings into a text.         *)
(***************************************************************************)
AsciiTable ==
    <<" ", "!", "\"", "#", "$", "%", "&", "'", "(", ")", "*", "+", ",", "-", ".", "/",
      "0", "1", "2", "3", "4", "5", "6", "7", "8", "9", ":", ";", "<", "=", ">", "?",
      "@", "A", "B", "C", "D", "E", "F", "G", "H", "I", "J", "K", "L", "M", "N", "O",
      "P", "Q", "R", "S", "T", "U", "V", "W", "X", "Y", "Z", "[", "\\", "]", "^", "_">>

\* U+0061..U+007E (U+0060, the grave accent, is written as the number 96)
AsciiLower ==
    <<"a", "b", "c", "d", "e", "f", "g", "h", "i", "j", "k", "l", "m", "n", "o",
      "p", "q", "r", "s", "t", "u", "v", "w", "x", "y", "z", "{", "|", "}", "~">>

OrdOf ==
    [c \in {AsciiTable[i] : i \in 1..Len(AsciiTable)}
            \cup {AsciiLower[i] : i \in 1..Len(AsciiLower)} |->
        IF \E i \in 1..Len(AsciiTable) : AsciiTable[i] = c
        THEN 31 + (CHOOSE i \in 1..Len(AsciiTable) : AsciiTable[i] = c)
        ELSE 96 + (CHOOSE i \in 1..Len(AsciiLower) : AsciiLower[i] = c)]

Str(t) == [i \in 1..Len(t) |-> OrdOf[t[i]]]

IsDigit(c) == c >= 48 /\ c <= 57

RECURSIVE Pow(_, _)
Pow(b, n) == IF n = 0 THEN 1 ELSE b * Pow(b, n - 1)

\* format!("{}", n) for an unsigned integer
RECURSIVE NatToString(_)
NatToString(n) ==
    IF n < 10 THEN <<48 + n>> ELSE Append(NatToString(n \div 10), 48 + (n % 10))

Repeat(c, n) == [i \in 1..n |-> c]

RECURSIVE Concat(_)
Concat(ss) == IF ss = <<>> THEN <<>> ELSE Head(ss) \o Concat(Tail(ss))

(***************************************************************************)
(* UTF-8: str::as_bytes and String::from_utf8.                             *)
(***************************************************************************)
Utf8Char(c) ==
    IF c < 128 THEN <<c>>
    ELSE IF c < 2048 THEN <<192 + (c \div 64), 128 + (c % 64)>>
    ELSE IF c < 65536 THEN
        <<224 + (c \div 4096), 128 + ((c \div 64) % 64), 128 + (c % 64)>>
    ELSE <<240 + (c \div 262144), 128 + ((c \div 4096) % 64),
           128 + ((c \div 64) % 64), 128 + (c % 64)>>

\* str::as_bytes (the halving keeps the recursion shallow on long texts)
RECURSIVE as_bytes(_)
as_bytes(s) ==
    IF s = <<>> THEN <<>>
    ELSE IF Len(s) = 1 THEN Utf8Char(s[1])
    ELSE LET h == Len(s) \div 2 IN
         as_bytes(SubSeq(s, 1, h)) \o as_bytes(SubSeq(s, h + 1, Len(s)))

IsCont(b, i) == i <= Len(b) /\ b[i] >= 128 /\ b[i] <= 191

\* One scalar value decoded at byte i (1-based): [ok, c, n]; overlong forms,
\* surrogates and values above U+10FFFF are rejected as from_utf8 rejects them.
Utf8Next(b, i) ==
    LET b0 == b[i] IN
    IF b0 < 128 THEN [ok |-> TRUE, c |-> b0, n |-> 1]
    ELSE IF b0 >= 194 /\ b0 <= 223 /\ IsCont(b, i + 1) THEN
        [ok |-> TRUE, c |-> (b0 - 192) * 64 + (b[i + 1] - 128), n |-> 2]
    ELSE IF b0 >= 224 /\ b0 <= 239 /\ IsCont(b, i + 1) /\ IsCont(b, i + 2) THEN
        LET c == (b0 - 224) * 4096 + (b[i + 1] - 128) * 64 + (b[i + 2] - 128) IN
        IF c >= 2048 /\ ~(c >= 55296 /\ c <= 57343)
        THEN [ok |-> TRUE, c |-> c, n |-> 3]
        ELSE [ok |-> FALSE, c |-> 0, n |-> 0]
    ELSE IF b0 >= 240 /\ b0 <= 244 /\ IsCont(b, i + 1) /\ IsCont(b, i + 2)
            /\ IsCont(b, i + 3) THEN
        LET c == (b0 - 240) * 262144 + (b[i + 1] - 128) * 4096
                 + (b[i + 2] - 128) * 64 + (b[i + 3] - 128) IN
        IF c >= 65536 /\ c <= 1114111
        THEN [ok |-> TRUE, c |-> c, n |-> 4]
        ELSE [ok |-> FALSE, c |-> 0, n |-> 0]
    ELSE [ok |-> FALSE, c |-> 0, n |-> 0]

RECURSIVE Utf8From(_, _, _)
Utf8From(b, i, acc) ==
    LET Push(r) == IF r.ok THEN Utf8From(b, i + r.n, Append(acc, r.c)) ELSE None
    IN  IF i > Len(b) THEN Some(acc) ELSE Push(Utf8Next(b, i))

\* String::from_utf8: Some(text) or None (Err)
from_utf8(b) == Utf8From(b, 1, <<>>)

(***************************************************************************)
(* Unsigned integers wider than TLC's integers are kept as little-endian   *)
(* bytes ("limbs"), without high zero bytes unless a width is stated.      *)
(***************************************************************************)
RECURSIVE NatToLimbs(_)
NatToLimbs(n) == IF n = 0 THEN <<>> ELSE <<n % 256>> \o NatToLimbs(n \div 256)

\* e, once v is computed.  TLC computes an argument where it is first used;
\* when that is inside the computation of the next argument, a run of n steps
\* nests n deep.  Then(v, e) has v computed before e starts.
Then(v, e) == IF v = v THEN e ELSE e

\* The carries of a sum written in columns: the bytes of columns lo..hi of
\* cols after the carry c came in, and the carry that goes out (c is the
\* borrow, -1 or 0, when columns are differences).  The columns are halved
\* rather than walked, which keeps the evaluation shallow.
RECURSIVE Propagate(_, _, _, _)
Propagate(cols, lo, hi, c) ==
    LET Join(low, high) == [s |-> low.s \o high.s, c |-> high.c]
        High(low) ==
            Then(low, Join(low, Propagate(cols, ((lo + hi) \div 2) + 1, hi, low.c)))
    IN  IF lo > hi THEN [s |-> <<>>, c |-> c]
        ELSE IF lo = hi
        THEN [s |-> <<(cols[lo] + c) % 256>>, c |-> (cols[lo] + c) \div 256]
        ELSE High(Propagate(cols, lo, (lo + hi) \div 2, c))

\* x * m + carry, for a small m
LimbsMulAdd(x, m, carry) ==
    LET Carried(p) == p.s \o NatToLimbs(p.c)
    IN  Carried(Propagate([i \in 1..Len(x) |-> x[i] * m], 1, Len(x), carry))

\* "as u16", "as u32", "as u64": the low n bytes
Truncate(x, n) == [i \in 1..n |-> IF i <= Len(x) THEN x[i] ELSE 0]

RECURSIVE ColumnSum(_, _, _, _)
ColumnSum(x, c, j, i) ==
    IF i > j THEN 0 ELSE x[i] * c[j + 1 - i] + ColumnSum(x, c, j, i + 1)

RECURSIVE MulColumns(_, _, _, _, _)
MulColumns(x, c, n, j, carry) ==
    IF j > n THEN <<>>
    ELSE LET v == ColumnSum(x, c, j, 1) + carry
         IN  <<v % 256>> \o MulColumns(x, c, n, j + 1, v \div 256)

\* x.wrapping_mul(c) on n-byte integers: the product modulo 2^(8n)
wrapping_mul(x, c, n) == MulColumns(x, c, n, 1, 0)

\* x without its high zero bytes
LimbsNorm(x) ==
    LET \* the highest index in lo..hi of a byte that is not 0, or lo - 1
        RECURSIVE Top(_, _)
        Top(lo, hi) ==
            IF lo > hi THEN lo - 1
            ELSE IF lo = hi THEN (IF x[lo] # 0 THEN lo ELSE lo - 1)
            ELSE LET mid == (lo + hi) \div 2
                 IN  IF \A i \in (mid + 1)..hi : x[i] = 0 THEN Top(lo, mid)
                     ELSE Top(mid + 1, hi)
    IN  SubSeq(x, 1, Top(1, Len(x)))

\* -1, 0 or 1 as x is below, equal to or above y
LimbsCmp(x, y) ==
    LET \* by the highest byte in lo..hi in which x and y differ
        RECURSIVE From(_, _)
        From(lo, hi) ==
            IF lo = hi
            THEN (IF x[lo] = y[lo] THEN 0 ELSE IF x[lo] < y[lo] THEN -1 ELSE 1)
            ELSE LET mid == (lo + hi) \div 2
                 IN  IF \A i \in (mid + 1)..hi : x[i] = y[i] THEN From(lo, mid)
                     ELSE From(mid + 1, hi)
    IN  IF Len(x) # Len(y) THEN (IF Len(x) < Len(y) THEN -1 ELSE 1)
        ELSE IF x = <<>> THEN 0
        ELSE From(1, Len(x))

\* x + y
LimbsAdd(x, y) ==
    LET n == Max(Len(x), Len(y))
        Carried(p) == p.s \o NatToLimbs(p.c)
    IN  Carried(Propagate([i \in 1..n |-> (IF i <= Len(x) THEN x[i] ELSE 0)
                                            + (IF i <= Len(y) THEN y[i] ELSE 0)],
                          1, n, 0))

\* x - y, for x >= y
LimbsSub(x, y) ==
    LimbsNorm(Propagate([i \in 1..Len(x) |-> x[i] - (IF i <= Len(y) THEN y[i] ELSE 0)],
                        1, Len(x), 0).s)

\* x * 2^s
LimbsShl(x, s) ==
    IF x = <<>> THEN <<>>
    ELSE [i \in 1..(s \div 8) |-> 0] \o LimbsMulAdd(x, Pow(2, s % 8), 0)

\* the number of bits of x: 0 for 0, otherwise floor(log2 x) + 1
BitLen(x) ==
    IF x = <<>> THEN 0
    ELSE 8 * (Len(x) - 1) + (CHOOSE n \in 1..8 :
                x[Len(x)] >= Pow(2, n - 1) /\ x[Len(x)] < Pow(2, n))

\* Binary long division of r * 2^n by y, for r < y < 2^53, each kept as
\* <<high word, low word of 24 bits>>: a step doubles the remainder and
\* subtracts y where it fits, the bit of the quotient saying so.  The result
\* is <<the remainder, the n bits of (r * 2^n) \div y, highest first>>.  The
\* steps are halved rather than walked, which keeps the evaluation shallow.
RECURSIVE LongDivision(_, _, _)
LongDivision(r, y, n) ==
    LET Step(h, l) ==
            IF h > y[1] \/ (h = y[1] /\ l >= y[2])
            THEN <<<<h - y[1] - (IF l < y[2] THEN 1 ELSE 0),
                     (l - y[2] + 16777216) % 16777216>>, <<1>>>>
            ELSE <<<<h, l>>, <<0>>>>
        Join(first, rest) == <<rest[1], first[2] \o rest[2]>>
        Rest(first) == Then(first, Join(first, LongDivision(first[1], y, n - (n \div 2))))
    IN  IF n = 1 THEN Step(2 * r[1] + (r[2] \div 8388608), (2 * r[2]) % 16777216)
        ELSE Rest(LongDivision(r, y, n \div 2))

\* x * 10^n
RECURSIVE LimbsMulPow10(_, _)
LimbsMulPow10(x, n) ==
    LET Rest(half) == Then(half, LimbsMulPow10(half, n - (n \div 2)))
    IN  IF n <= 6 THEN LimbsMulAdd(x, Pow(10, n), 0)
        ELSE Rest(LimbsMulPow10(x, n \div 2))

(***************************************************************************)
(* f64: IEEE 754 binary64.  A value is [c, neg, m, e]: c = "fin" is the    *)
(* double (-1)^neg * m * 2^e, with m an integer in limbs; a normal number  *)
(* has 2^52 <= m < 2^53 and -1074 <= e <= 971, a subnormal has m < 2^52    *)
(* and e = -1074, a zero has m = 0 and e = 0 and keeps its sign.  c =      *)
(* "inf" is an infinity and c = "nan" a NaN.  Every double has exactly one *)
(* record, so two doubles are the same exactly when their records are.     *)
(***************************************************************************)
F64Zero(neg) == [c |-> "fin", neg |-> neg, m |-> <<>>, e |-> 0]
F64Inf(neg) == [c |-> "inf", neg |-> neg, m |-> <<>>, e |-> 0]
F64NaN == [c |-> "nan", neg |-> FALSE, m |-> <<>>, e |-> 0]

\* m / 2^s for s >= 1, rounded to the nearest integer, a tie to the even one
RoundShift(m, s) ==
    LET \* m \div 2^s
        Shr(rest) ==
            IF s % 8 = 0 \/ rest = <<>> THEN rest
            ELSE Tail(LimbsMulAdd(rest, Pow(2, 8 - (s % 8)), 0))
        \* m % 2^s
        low == LimbsNorm([i \in 1..Min(Len(m), (s + 7) \div 8) |->
                            IF i = (s + 7) \div 8 THEN m[i] % Pow(2, ((s - 1) % 8) + 1)
                            ELSE m[i]])
        \* half: the part cut off against half a unit of q
        Decide(q, half) ==
            IF half > 0 \/ (half = 0 /\ q # <<>> /\ q[1] % 2 = 1)
            THEN LimbsAdd(q, <<1>>)
            ELSE q
    IN  Decide(Shr(SubSeq(m, (s \div 8) + 1, Len(m))),
               LimbsCmp(low, LimbsShl(<<1>>, s - 1)))

\* the double nearest to (-1)^neg * m * 2^e, ties to the even significand:
\* the rounding every f64 operation and every integer-to-f64 cast applies
F64Round(neg, m, e) ==
    LET e1 == Max(e + BitLen(m) - 53, -1074)
        \* r * 2^e1, where a carry out of the 53 bits has made r 2^53
        Finish(r) ==
            IF r = <<>> THEN F64Zero(neg)
            ELSE IF r = <<0, 0, 0, 0, 0, 0, 32>> THEN
                (IF e1 + 1 > 971 THEN F64Inf(neg)
                 ELSE [c |-> "fin", neg |-> neg, m |-> <<0, 0, 0, 0, 0, 0, 16>>,
                       e |-> e1 + 1])
            ELSE IF e1 > 971 THEN F64Inf(neg)
            ELSE [c |-> "fin", neg |-> neg, m |-> r, e |-> e1]
    IN  Finish(IF e1 <= e THEN LimbsShl(m, e - e1) ELSE RoundShift(m, e1 - e))

\* "n as f64" for an integer of magnitude mag (in limbs)
F64FromInt(neg, mag) == F64Round(neg, mag, 0)

F64IsZero(x) == x.c = "fin" /\ x.m = <<>>

F64Neg(x) == IF x.c = "nan" THEN x ELSE [x EXCEPT !.neg = ~x.neg]

\* a + b
F64Add(a, b) ==
    LET \* the sum of two signed magnitudes, as <<negative, magnitude>>
        Sum(x, y) ==
            IF a.neg = b.neg THEN <<a.neg, LimbsAdd(x, y)>>
            ELSE IF LimbsCmp(x, y) >= 0 THEN <<a.neg, LimbsSub(x, y)>>
            ELSE <<b.neg, LimbsSub(y, x)>>
        \* the exact sum s in units of 2^e, rounded; a sum that cancels is +0
        Rounded(s, e) ==
            IF s[2] = <<>> THEN F64Zero(FALSE) ELSE F64Round(s[1], s[2], e)
    IN  IF a.c = "nan" \/ b.c = "nan" THEN F64NaN
        ELSE IF a.c = "inf" THEN (IF b.c = "inf" /\ a.neg # b.neg THEN F64NaN ELSE a)
        ELSE IF b.c = "inf" THEN b
        ELSE IF F64IsZero(a) /\ F64IsZero(b) THEN F64Zero(a.neg /\ b.neg)
        ELSE IF F64IsZero(a) THEN b
        ELSE IF F64IsZero(b) THEN a
        ELSE Rounded(Sum(LimbsShl(a.m, a.e - Min(a.e, b.e)),
                         LimbsShl(b.m, b.e - Min(a.e, b.e))),
                     Min(a.e, b.e))

\* a - b
F64Sub(a, b) == F64Add(a, F64Neg(b))

\* a * b
F64Mul(a, b) ==
    IF a.c = "nan" \/ b.c = "nan" THEN F64NaN
    ELSE IF a.c = "inf" \/ b.c = "inf" THEN
        (IF F64IsZero(a) \/ F64IsZero(b) THEN F64NaN ELSE F64Inf(a.neg # b.neg))
    ELSE F64Round(a.neg # b.neg,
                  LimbsNorm(wrapping_mul(Truncate(a.m, 14), Truncate(b.m, 14), 14)),
                  a.e + b.e)

\* a / b: the significands are moved up to 53 bits, the quotient is taken
\* to 56 bits or more, its lowest bit set when the division leaves a
\* remainder, then rounded
F64Div(a, b) ==
    LET \* m * 2^(53 - BitLen(m)) as <<high word, low word of 24 bits>>
        Words(x) == <<x[4] + 256 * x[5] + 65536 * x[6] + 16777216 * x[7],
                      x[1] + 256 * x[2] + 65536 * x[3]>>
        Up(m) == Words(LimbsShl(m, 53 - BitLen(m)))
        \* the bit of 2^56 and the 56 bits below it
        Divide(x, y) ==
            IF x[1] > y[1] \/ (x[1] = y[1] /\ x[2] >= y[2])
            THEN <<1, LongDivision(<<x[1] - y[1] - (IF x[2] < y[2] THEN 1 ELSE 0),
                                      (x[2] - y[2] + 16777216) % 16777216>>, y, 56)>>
            ELSE <<0, LongDivision(x, y, 56)>>
        \* twice the quotient, one more when a remainder is left
        Sticky(top, qr) ==
            <<2 * (qr[2][56] + 2 * (qr[2][55] + 2 * (qr[2][54] + 2 * (qr[2][53]
                + 2 * (qr[2][52] + 2 * (qr[2][51] + 2 * qr[2][50]))))))
                + (IF qr[1] = <<0, 0>> THEN 0 ELSE 1)>>
            \o [i \in 1..6 |->
                   qr[2][57 - 8 * i] + 2 * (qr[2][56 - 8 * i] + 2 * (qr[2][55 - 8 * i]
                    + 2 * (qr[2][54 - 8 * i] + 2 * (qr[2][53 - 8 * i]
                    + 2 * (qr[2][52 - 8 * i] + 2 * (qr[2][51 - 8 * i]
                    + 2 * qr[2][50 - 8 * i]))))))]
            \o <<qr[2][1] + 2 * top>>
        Quotient(d) == LimbsNorm(Sticky(d[1], d[2]))
    IN  IF a.c = "nan" \/ b.c = "nan" THEN F64NaN
        ELSE IF a.c = "inf" THEN
            (IF b.c = "inf" THEN F64NaN ELSE F64Inf(a.neg # b.neg))
        ELSE IF b.c = "inf" THEN F64Zero(a.neg # b.neg)
        ELSE IF F64IsZero(b) THEN
            (IF F64IsZero(a) THEN F64NaN ELSE F64Inf(a.neg # b.neg))
        ELSE IF F64IsZero(a) THEN F64Zero(a.neg # b.neg)
        ELSE F64Round(a.neg # b.neg, Quotient(Divide(Up(a.m), Up(b.m))),
                      (a.e + BitLen(a.m)) - (b.e + BitLen(b.m)) - 57)

\* core::num::flt2dec::round_up on the digits d: the last digit one up, nines
\* carried; all nines become 1 and zeros, one digit longer, the exponent k
\* one up
round_up(d, k) ==
    LET n == Len(d)
        last == IF \A i \in 1..n : d[i] = 9 THEN 0
                ELSE CHOOSE i \in 1..n : d[i] # 9 /\ \A j \in (i + 1)..n : d[j] = 9
    IN  IF last = 0
        THEN [digits |-> [i \in 1..(n + 1) |-> IF i = 1 THEN 1 ELSE 0], k |-> k + 1]
        ELSE [digits |-> [i \in 1..n |-> IF i < last THEN d[i]
                                        ELSE IF i = last THEN d[i] + 1 ELSE 0],
              k |-> k]

\* The loops of core::num::flt2dec::strategy::dragon::format_shortest work
\* on mant, minus and plus, kept here in one tuple v, against scale.
\* mant, minus and plus times ten
dragon_times10(v) ==
    <<LimbsMulAdd(v[1], 10, 0), LimbsMulAdd(v[2], 10, 0), LimbsMulAdd(v[3], 10, 0)>>

\* the digit mant / scale and the rest of mant
RECURSIVE dragon_digit(_, _, _)
dragon_digit(d, mant, scale) ==
    IF LimbsCmp(mant, scale) < 0 THEN <<d, mant>>
    ELSE dragon_digit(d + 1, LimbsSub(mant, scale), scale)

\* the digit loop: rounding is 1 when the ends of the interval count
\* (Ordering::Greater) and 0 when they do not; dr is the next digit and the
\* rest of mant
RECURSIVE dragon_generate(_, _, _, _, _, _)
dragon_generate(v, scale, rounding, k, buf, dr) ==
    LET Next10(w) == dragon_generate(w, scale, rounding, k, Append(buf, dr[1]),
                                     dragon_digit(0, w[1], scale))
        \* down: mant < minus, up: scale < mant + plus (or equal, when the
        \* ends count)
        Decide(down, up) ==
            IF ~down /\ ~up THEN Next10(dragon_times10(<<dr[2], v[2], v[3]>>))
            ELSE IF up /\ (~down \/ LimbsCmp(LimbsMulAdd(dr[2], 2, 0), scale) >= 0)
            THEN round_up(Append(buf, dr[1]), k)
            ELSE [digits |-> Append(buf, dr[1]), k |-> k]
    IN  Decide(LimbsCmp(dr[2], v[2]) < rounding,
               LimbsCmp(scale, LimbsAdd(dr[2], v[3])) < rounding)

\* core::num::flt2dec::strategy::dragon::format_shortest for a finite x > 0:
\* the shortest digits d1..dn, with 0.d1..dn * 10^k, that read back as x.
\* (flt2dec tries strategy::grisu first, which gives the same digits or
\* gives up.)
format_shortest(x) ==
    LET \* decode: the value is mant * 2^exp, the values that round to it lie
        \* from (mant - minus) * 2^exp to (mant + plus) * 2^exp, the ends
        \* included when the significand is even; below a power of two the
        \* next double is half as far
        shift == IF x.m = <<0, 0, 0, 0, 0, 0, 16>> /\ x.e > -1074 THEN 2 ELSE 1
        exp == x.e - shift
        \* estimate_scaling_factor(mant + plus, exp): ((nbits + exp) *
        \* 1292913986) >> 32, which for these exponents is the floor below
        k0 == ((BitLen(x.m) + x.e) * 30103) \div 100000
        \* mant, minus and plus are multiplied by 2^exp and by 10^-k0 where
        \* these are whole, scale by 2^-exp and by 10^k0 where those are
        Num(n) == LimbsMulPow10(LimbsShl(n, IF exp > 0 THEN exp ELSE 0),
                                IF k0 < 0 THEN -k0 ELSE 0)
        scale == LimbsMulPow10(LimbsShl(<<1>>, IF exp < 0 THEN -exp ELSE 0),
                               IF k0 > 0 THEN k0 ELSE 0)
        rounding == IF x.m[1] % 2 = 0 THEN 1 ELSE 0
        From(w, k) ==
            dragon_generate(w, w[4], rounding, k, <<>>, dragon_digit(0, w[1], w[4]))
        \* the fixup after the estimate k0, which is the exponent or one below
        Start(v) ==
            IF LimbsCmp(v[4], LimbsAdd(v[1], v[3])) < rounding THEN From(v, k0 + 1)
            ELSE From(dragon_times10(v) \o <<v[4]>>, k0)
    IN  Start(<<Num(LimbsShl(x.m, shift)), Num(<<1>>), Num(<<shift>>), scale>>)

\* <f64 as Display>::fmt, the text that f64::to_string() returns: the
\* shortest digits that read back as the same double, written without an
\* exponent and without a fraction when the value is an integer
DisplayF64(x) ==
    LET Body(s) ==
            LET n == Len(s.digits)
                digits == [i \in 1..n |-> 48 + s.digits[i]]
            IN  IF s.k <= 0
                THEN Str(<<"0", ".">>) \o Repeat(48, -s.k) \o digits
                ELSE IF s.k >= n THEN digits \o Repeat(48, s.k - n)
                ELSE SubSeq(digits, 1, s.k) \o Str(<<".">>)
                        \o SubSeq(digits, s.k + 1, n)
    IN  IF x.c = "nan" THEN Str(<<"N", "a", "N">>)
        ELSE (IF x.neg THEN Str(<<"-">>) ELSE <<>>)
                \o (IF x.c = "inf" THEN Str(<<"i", "n", "f">>)
                    ELSE IF F64IsZero(x) THEN Str(<<"0">>)
                    ELSE Body(format_shortest(x)))

(***************************************************************************)
(* serde_json::from_str::<Value>: the parser works on the bytes of the     *)
(* argument string.  An index i counts the bytes consumed; an error        *)
(* carries the index whose line and column the message reports.  The       *)
(* texts below are serde_json's ErrorCode messages (U+0060 is 96).         *)
(***************************************************************************)
\* <ErrorCode as Display>::fmt
ErrorCodeDisplay(code) ==
    CASE code = "EofWhileParsingList" ->
            Str(<<"E", "O", "F", " ", "w", "h", "i", "l", "e", " ", "p", "a", "r",
              "s", "i", "n", "g", " ", "a", " ", "l", "i", "s", "t">>)
      [] code = "EofWhileParsingObject" ->
            Str(<<"E", "O", "F", " ", "w", "h", "i", "l", "e", " ", "p", "a", "r",
              "s", "i", "n", "g", " ", "a", "n", " ", "o", "b", "j", "e", "c", "t">>)
      [] code = "EofWhileParsingString" ->
            Str(<<"E", "O", "F", " ", "w", "h", "i", "l", "e", " ", "p", "a", "r",
              "s", "i", "n", "g", " ", "a", " ", "s", "t", "r", "i", "n", "g">>)
      [] code = "EofWhileParsingValue" ->
            Str(<<"E", "O", "F", " ", "w", "h", "i", "l", "e", " ", "p", "a", "r",
              "s", "i", "n", "g", " ", "a", " ", "v", "a", "l", "u", "e">>)
      [] code = "ExpectedColon" ->
            Str(<<"e", "x", "p", "e", "c", "t", "e", "d",
              " ">>) \o <<96>> \o Str(<<":">>) \o <<96>>
      [] code = "ExpectedListCommaOrEnd" ->
            Str(<<"e", "x", "p", "e", "c", "t", "e", "d",
              " ">>) \o <<96>> \o Str(<<",">>) \o <<96>> \o Str(<<" ", "o", "r",
              " ">>) \o <<96>> \o Str(<<"]">>) \o <<96>>
      [] code = "ExpectedObjectCommaOrEnd" ->
            Str(<<"e", "x", "p", "e", "c", "t", "e", "d",
              " ">>) \o <<96>> \o Str(<<",">>) \o <<96>> \o Str(<<" ", "o", "r",
              " ">>) \o <<96>> \o Str(<<"}">>) \o <<96>>
      [] code = "ExpectedSomeIdent" ->
            Str(<<"e", "x", "p", "e", "c", "t", "e", "d", " ", "i", "d", "e", "n",
              "t">>)
      [] code = "ExpectedSomeValue" ->
            Str(<<"e", "x", "p", "e", "c", "t", "e", "d", " ", "v", "a", "l", "u",
              "e">>)
      [] code = "InvalidEscape" ->
            Str(<<"i", "n", "v", "a", "l", "i", "d", " ", "e", "s", "c", "a", "p",
              "e">>)
      [] code = "InvalidNumber" ->
            Str(<<"i", "n", "v", "a", "l", "i", "d", " ", "n", "u", "m", "b", "e",
              "r">>)
      [] code = "NumberOutOfRange" ->
            Str(<<"n", "u", "m", "b", "e", "r", " ", "o", "u", "t", " ", "o", "f",
              " ", "r", "a", "n", "g", "e">>)
      [] code = "ControlCharacterWhileParsingString" ->
            Str(<<"c", "o", "n", "t", "r", "o", "l", " ", "c", "h", "a", "r", "a",
              "c", "t", "e", "r", " ", "(", "\\", "u", "0", "0", "0", "0", "-", "\\",
              "u", "0", "0", "1", "F", ")", " ", "f", "o", "u", "n", "d", " ", "w",
              "h", "i", "l", "e", " ", "p", "a", "r", "s", "i", "n", "g", " ", "a",
              " ", "s", "t", "r", "i", "n", "g">>)
      [] code = "KeyMustBeAString" ->
            Str(<<"k", "e", "y", " ", "m", "u", "s", "t", " ", "b", "e", " ", "a",
              " ", "s", "t", "r", "i", "n", "g">>)
      [] code = "LoneLeadingSurrogateInHexEscape" ->
            Str(<<"l", "o", "n", "e", " ", "l", "e", "a", "d", "i", "n", "g", " ",
              "s", "u", "r", "r", "o", "g", "a", "t", "e", " ", "i", "n", " ", "h",
              "e", "x", " ", "e", "s", "c", "a", "p", "e">>)
      [] code = "UnexpectedEndOfHexEscape" ->
            Str(<<"u", "n", "e", "x", "p", "e", "c", "t", "e", "d", " ", "e", "n",
              "d", " ", "o", "f", " ", "h", "e", "x", " ", "e", "s", "c", "a", "p",
              "e">>)
      [] code = "RecursionLimitExceeded" ->
            Str(<<"r", "e", "c", "u", "r", "s", "i", "o", "n", " ", "l", "i", "m", "i",
              "t", " ", "e", "x", "c", "e", "e", "d", "e", "d">>)
      [] code = "TrailingComma" ->
            Str(<<"t", "r", "a", "i", "l", "i", "n", "g", " ", "c", "o", "m", "m",
              "a">>)
      [] code = "TrailingCharacters" ->
            Str(<<"t", "r", "a", "i", "l", "i", "n", "g", " ", "c", "h", "a", "r",
              "a", "c", "t", "e", "r", "s">>)

Ok(v, i) == [ok |-> TRUE, v |-> v, i |-> i]
Err(code, at) == [ok |-> FALSE, code |-> code, at |-> at]

\* the next byte, or -1 at the end of the input
Peek(b, i) == IF i < Len(b) THEN b[i + 1] ELSE -1

\* the index a peek_error reports: that of the peeked byte
PeekAt(b, i) == Min(Len(b), i + 1)

\* Deserializer::parse_whitespace: the index of the first byte from i that is
\* no space, line feed, tab or carriage return
RECURSIVE SkipWs(_, _)
SkipWs(b, i) == IF Peek(b, i) \in {32, 10, 9, 13} THEN SkipWs(b, i + 1) ELSE i

\* Deserializer::parse_ident: the rest of null, true or false
RECURSIVE parse_ident(_, _, _, _)
parse_ident(b, i, ident, v) ==
    IF ident = <<>> THEN Ok(v, i)
    ELSE IF i >= Len(b) THEN Err("EofWhileParsingValue", i)
    ELSE IF b[i + 1] # Head(ident) THEN Err("ExpectedSomeIdent", i + 1)
    ELSE parse_ident(b, i + 1, Tail(ident), v)

\* the digit loops of parse_integer and parse_decimal: the digits from index i
\* are folded into the u64 significand until a byte that is no digit, or a
\* digit that would overflow it (which is left unread)
RECURSIVE DigitRun(_, _, _, _)
DigitRun(b, i, acc, cnt) ==
    LET \* overflow!(significand * 10 + digit, u64::MAX), with u64::MAX / 10 =
        \* 0x1999999999999999 and u64::MAX % 10 = 5
        Overflow(c, digit) == c >= 0 /\ (c > 0 \/ digit > 5)
    IN  IF ~IsDigit(Peek(b, i))
        THEN [v |-> acc, i |-> i, n |-> cnt, overflow |-> FALSE]
        ELSE IF Overflow(LimbsCmp(acc, <<153, 153, 153, 153, 153, 153, 153, 25>>),
                         Peek(b, i) - 48)
        THEN [v |-> acc, i |-> i, n |-> cnt, overflow |-> TRUE]
        ELSE DigitRun(b, i + 1, LimbsMulAdd(acc, 10, Peek(b, i) - 48), cnt + 1)

\* "while let b'0'..=b'9' = peek { eat_char }": the index after the digits
RECURSIVE SkipDigits(_, _)
SkipDigits(b, i) == IF IsDigit(Peek(b, i)) THEN SkipDigits(b, i + 1) ELSE i

\* ParserNumber::U64, ::I64 and ::F64 as a serde_json Number (N::PosInt,
\* N::NegInt, N::Float); i is the magnitude of an integer, in limbs
JsonInt(positive, significand) ==
    IF positive THEN [n |-> "PosInt", i |-> significand, f |-> F64Zero(FALSE)]
    ELSE IF significand = <<>>
            \/ LimbsCmp(significand, <<0, 0, 0, 0, 0, 0, 0, 128>>) > 0
    THEN [n |-> "Float", i |-> <<>>, f |-> F64FromInt(TRUE, significand)]
    ELSE [n |-> "NegInt", i |-> significand, f |-> F64Zero(FALSE)]

JsonFloat(f) == [n |-> "Float", i |-> <<>>, f |-> f]

JsonNumber(n) == [t |-> "Number", n |-> n]

\* static POW10: [f64; 309] of serde_json: the doubles written 1e0, 1e1, ...,
\* 1e308, each the double nearest to its power of ten; the entry for 10^n is
\* POW10[n + 1]
POW10 ==
    LET P(m, e) == [c |-> "fin", neg |-> FALSE, m |-> m, e |-> e]
    IN  <<
         P(<<0, 0, 0, 0, 0, 0, 16>>, -52),
         P(<<0, 0, 0, 0, 0, 0, 20>>, -49),
         P(<<0, 0, 0, 0, 0, 0, 25>>, -46),
         P(<<0, 0, 0, 0, 0, 64, 31>>, -43),
         P(<<0, 0, 0, 0, 0, 136, 19>>, -39),
         P(<<0, 0, 0, 0, 0, 106, 24>>, -36),
         P(<<0, 0, 0, 0, 128, 132, 30>>, -33),
         P(<<0, 0, 0, 0, 208, 18, 19>>, -29),
         P(<<0, 0, 0, 0, 132, 215, 23>>, -26),
         P(<<0, 0, 0, 0, 101, 205, 29>>, -23),
         P(<<0, 0, 0, 32, 95, 160, 18>>, -19),
         P(<<0, 0, 0, 232, 118, 72, 23>>, -16),
         P(<<0, 0, 0, 162, 148, 26, 29>>, -13),
         P(<<0, 0, 64, 229, 156, 48, 18>>, -9),
         P(<<0, 0, 144, 30, 196, 188, 22>>, -6),
         P(<<0, 0, 52, 38, 245, 107, 28>>, -3),
         P(<<0, 128, 224, 55, 121, 195, 17>>, 1),
         P(<<0, 160, 216, 133, 87, 52, 22>>, 4),
         P(<<0, 200, 78, 103, 109, 193, 27>>, 7),
         P(<<0, 61, 145, 96, 228, 88, 17>>, 11),
         P(<<64, 140, 181, 120, 29, 175, 21>>, 14),
         P(<<80, 239, 226, 214, 228, 26, 27>>, 17),
         P(<<146, 213, 77, 6, 207, 240, 16>>, 21),
         P(<<246, 74, 225, 199, 2, 45, 21>>, 24),
         P(<<180, 157, 217, 121, 67, 120, 26>>, 27),
         P(<<145, 2, 40, 44, 42, 139, 16>>, 31),
         P(<<53, 3, 50, 183, 244, 173, 20>>, 34),
         P(<<2, 132, 254, 228, 113, 217, 25>>, 37),
         P(<<129, 18, 31, 47, 231, 39, 16>>, 41),
         P(<<33, 215, 230, 250, 224, 49, 20>>, 44),
         P(<<234, 140, 160, 57, 89, 62, 25>>, 47),
         P(<<36, 176, 8, 136, 239, 141, 31>>, 50),
         P(<<23, 110, 5, 181, 181, 184, 19>>, 54),
         P(<<156, 201, 70, 34, 227, 166, 24>>, 57),
         P(<<3, 124, 216, 234, 155, 208, 30>>, 60),
         P(<<130, 77, 199, 114, 97, 66, 19>>, 64),
         P(<<227, 32, 121, 207, 249, 18, 24>>, 67),
         P(<<27, 105, 87, 67, 184, 23, 30>>, 70),
         P(<<177, 161, 22, 42, 211, 206, 18>>, 74),
         P(<<29, 74, 156, 244, 135, 130, 23>>, 77),
         P(<<165, 92, 195, 241, 41, 99, 29>>, 80),
         P(<<231, 25, 26, 55, 250, 93, 18>>, 84),
         P(<<97, 160, 224, 196, 120, 245, 22>>, 87),
         P(<<121, 200, 24, 246, 214, 178, 28>>, 90),
         P(<<76, 125, 207, 89, 198, 239, 17>>, 94),
         P(<<158, 92, 67, 240, 183, 107, 22>>, 97),
         P(<<198, 51, 84, 236, 165, 6, 28>>, 100),
         P(<<92, 160, 180, 179, 39, 132, 17>>, 104),
         P(<<115, 200, 161, 160, 49, 229, 21>>, 107),
         P(<<143, 58, 202, 8, 126, 94, 27>>, 110),
         P(<<154, 100, 126, 197, 14, 27, 17>>, 114),
         P(<<192, 253, 221, 118, 210, 97, 21>>, 117),
         P(<<48, 125, 149, 20, 71, 186, 26>>, 120),
         P(<<62, 110, 221, 108, 108, 180, 16>>, 124),
         P(<<206, 201, 20, 136, 135, 225, 20>>, 127),
         P(<<65, 252, 25, 106, 233, 25, 26>>, 130),
         P(<<169, 61, 80, 226, 49, 80, 16>>, 134),
         P(<<19, 77, 228, 90, 62, 100, 20>>, 137),
         P(<<87, 96, 157, 241, 77, 125, 25>>, 140),
         P(<<109, 184, 4, 110, 161, 220, 31>>, 143),
         P(<<68, 243, 194, 228, 228, 233, 19>>, 147),
         P(<<21, 176, 243, 29, 94, 228, 24>>, 150),
         P(<<27, 156, 112, 165, 117, 29, 31>>, 153),
         P(<<145, 97, 102, 135, 105, 114, 19>>, 157),
         P(<<245, 249, 63, 233, 3, 79, 24>>, 160),
         P(<<114, 248, 143, 227, 196, 98, 30>>, 163),
         P(<<71, 251, 57, 14, 187, 253, 18>>, 167),
         P(<<25, 122, 200, 209, 41, 189, 23>>, 170),
         P(<<159, 152, 58, 70, 116, 172, 29>>, 173),
         P(<<100, 159, 228, 171, 200, 139, 18>>, 177),
         P(<<61, 199, 221, 214, 186, 46, 23>>, 180),
         P(<<12, 57, 149, 140, 105, 250, 28>>, 183),
         P(<<167, 67, 221, 247, 129, 28, 18>>, 187),
         P(<<145, 148, 212, 117, 162, 163, 22>>, 190),
         P(<<181, 185, 73, 19, 139, 76, 28>>, 193),
         P(<<17, 20, 14, 236, 214, 175, 17>>, 197),
         P(<<22, 153, 17, 167, 204, 27, 22>>, 200),
         P(<<91, 255, 213, 208, 191, 162, 27>>, 203),
         P(<<153, 191, 133, 226, 183, 69, 17>>, 207),
         P(<<127, 47, 39, 219, 37, 151, 21>>, 210),
         P(<<95, 251, 240, 81, 239, 252, 26>>, 213),
         P(<<27, 157, 54, 147, 21, 222, 16>>, 217),
         P(<<98, 68, 4, 248, 154, 21, 21>>, 220),
         P(<<123, 85, 5, 182, 1, 91, 26>>, 223),
         P(<<109, 85, 195, 17, 225, 120, 16>>, 227),
         P(<<200, 42, 52, 86, 25, 151, 20>>, 230),
         P(<<122, 53, 193, 171, 223, 188, 25>>, 233),
         P(<<108, 193, 88, 203, 11, 22, 16>>, 237),
         P(<<199, 241, 46, 190, 142, 27, 20>>, 240),
         P(<<57, 174, 186, 109, 114, 34, 25>>, 243),
         P(<<199, 89, 41, 9, 15, 107, 31>>, 246),
         P(<<29, 216, 185, 101, 233, 162, 19>>, 250),
         P(<<36, 78, 40, 191, 163, 139, 24>>, 253),
         P(<<173, 97, 242, 174, 140, 174, 30>>, 256),
         P(<<12, 125, 87, 237, 23, 45, 19>>, 260),
         P(<<79, 92, 173, 232, 93, 248, 23>>, 263),
         P(<<99, 179, 216, 98, 117, 246, 29>>, 266),
         P(<<30, 112, 199, 93, 9, 186, 18>>, 270),
         P(<<37, 76, 57, 181, 139, 104, 23>>, 273),
         P(<<46, 159, 135, 162, 174, 66, 29>>, 276),
         P(<<125, 195, 148, 37, 173, 73, 18>>, 280),
         P(<<92, 244, 249, 110, 24, 220, 22>>, 283),
         P(<<115, 113, 184, 138, 30, 147, 28>>, 286),
         P(<<232, 70, 179, 22, 243, 219, 17>>, 290),
         P(<<162, 24, 96, 220, 239, 82, 22>>, 293),
         P(<<202, 30, 120, 211, 171, 231, 27>>, 296),
         P(<<63, 19, 43, 100, 203, 112, 17>>, 300),
         P(<<14, 216, 53, 61, 254, 204, 21>>, 303),
         P(<<18, 78, 131, 204, 61, 64, 27>>, 306),
         P(<<203, 16, 210, 159, 38, 8, 17>>, 310),
         P(<<254, 148, 198, 71, 48, 74, 21>>, 313),
         P(<<61, 58, 184, 89, 188, 156, 26>>, 316),
         P(<<102, 36, 19, 184, 245, 161, 16>>, 320),
         P(<<128, 237, 23, 38, 115, 202, 20>>, 323),
         P(<<224, 232, 157, 239, 15, 253, 25>>, 326),
         P(<<140, 177, 194, 245, 41, 62, 16>>, 330),
         P(<<239, 93, 51, 115, 180, 77, 20>>, 333),
         P(<<107, 53, 0, 144, 33, 97, 25>>, 336),
         P(<<197, 66, 0, 244, 105, 185, 31>>, 339),
         P(<<187, 41, 128, 56, 226, 211, 19>>, 343),
         P(<<42, 52, 160, 198, 218, 200, 24>>, 346),
         P(<<53, 65, 72, 120, 17, 251, 30>>, 349),
         P(<<193, 40, 45, 235, 234, 92, 19>>, 353),
         P(<<241, 114, 248, 165, 37, 52, 24>>, 356),
         P(<<173, 143, 118, 15, 47, 65, 30>>, 359),
         P(<<204, 25, 170, 105, 189, 232, 18>>, 363),
         P(<<63, 160, 20, 196, 236, 162, 23>>, 366),
         P(<<79, 200, 25, 245, 167, 139, 29>>, 369),
         P(<<50, 29, 48, 249, 72, 119, 18>>, 373),
         P(<<126, 36, 124, 55, 27, 21, 23>>, 376),
         P(<<158, 45, 91, 5, 98, 218, 28>>, 379),
         P(<<130, 252, 88, 67, 125, 8, 18>>, 383),
         P(<<163, 59, 47, 148, 156, 138, 22>>, 386),
         P(<<140, 10, 59, 185, 67, 45, 28>>, 389),
         P(<<151, 230, 196, 83, 74, 156, 17>>, 393),
         P(<<61, 32, 182, 232, 92, 3, 22>>, 396),
         P(<<77, 168, 227, 34, 52, 132, 27>>, 399),
         P(<<48, 73, 206, 149, 160, 50, 17>>, 403),
         P(<<124, 219, 65, 187, 72, 127, 21>>, 406),
         P(<<91, 82, 18, 234, 26, 223, 26>>, 409),
         P(<<121, 115, 75, 210, 112, 203, 16>>, 413),
         P(<<87, 80, 222, 6, 77, 254, 20>>, 416),
         P(<<109, 228, 149, 72, 224, 61, 26>>, 419),
         P(<<196, 174, 93, 45, 172, 102, 16>>, 423),
         P(<<117, 26, 181, 56, 87, 128, 20>>, 426),
         P(<<18, 97, 226, 6, 109, 160, 25>>, 429),
         P(<<171, 124, 77, 36, 68, 4, 16>>, 433),
         P(<<214, 219, 96, 45, 85, 5, 20>>, 436),
         P(<<204, 18, 185, 120, 170, 6, 25>>, 439),
         P(<<127, 87, 231, 22, 85, 72, 31>>, 442),
         P(<<175, 150, 80, 46, 53, 141, 19>>, 446),
         P(<<91, 188, 228, 121, 130, 112, 24>>, 449),
         P(<<114, 235, 93, 24, 163, 140, 30>>, 452),
         P(<<39, 179, 58, 239, 229, 23, 19>>, 456),
         P(<<241, 95, 9, 107, 223, 221, 23>>, 459),
         P(<<237, 183, 203, 69, 87, 213, 29>>, 462),
         P(<<244, 82, 159, 139, 86, 165, 18>>, 466),
         P(<<177, 39, 135, 46, 172, 78, 23>>, 469),
         P(<<157, 241, 40, 58, 87, 34, 29>>, 472),
         P(<<2, 151, 89, 132, 118, 53, 18>>, 476),
         P(<<195, 252, 111, 37, 212, 194, 22>>, 479),
         P(<<244, 251, 203, 46, 137, 115, 28>>, 482),
         P(<<120, 125, 63, 189, 53, 200, 17>>, 486),
         P(<<214, 92, 143, 44, 67, 58, 22>>, 489),
         P(<<12, 52, 179, 247, 211, 200, 27>>, 492),
         P(<<135, 0, 208, 122, 132, 93, 17>>, 496),
         P(<<169, 0, 132, 153, 229, 180, 21>>, 499),
         P(<<212, 0, 229, 255, 30, 34, 27>>, 502),
         P(<<132, 32, 239, 95, 83, 245, 16>>, 506),
         P(<<165, 232, 234, 55, 168, 50, 21>>, 509),
         P(<<207, 162, 229, 69, 82, 127, 26>>, 512),
         P(<<193, 133, 175, 107, 147, 143, 16>>, 516),
         P(<<50, 103, 155, 70, 120, 179, 20>>, 519),
         P(<<254, 64, 66, 88, 86, 224, 25>>, 522),
         P(<<159, 104, 41, 247, 53, 44, 16>>, 526),
         P(<<198, 194, 243, 116, 67, 55, 20>>, 529),
         P(<<120, 179, 48, 82, 20, 69, 25>>, 532),
         P(<<86, 224, 188, 102, 89, 150, 31>>, 535),
         P(<<54, 12, 54, 224, 247, 189, 19>>, 539),
         P(<<67, 143, 67, 216, 117, 173, 24>>, 542),
         P(<<20, 115, 84, 78, 211, 216, 30>>, 545),
         P(<<236, 199, 244, 16, 132, 71, 19>>, 549),
         P(<<232, 249, 49, 21, 101, 25, 24>>, 552),
         P(<<97, 120, 126, 90, 190, 31, 30>>, 555),
         P(<<61, 11, 143, 248, 214, 211, 18>>, 559),
         P(<<12, 206, 178, 182, 204, 136, 23>>, 562),
         P(<<143, 129, 95, 228, 255, 106, 29>>, 565),
         P(<<249, 176, 187, 238, 223, 98, 18>>, 569),
         P(<<56, 157, 106, 234, 151, 251, 22>>, 572),
         P(<<134, 68, 5, 229, 125, 186, 28>>, 575),
         P(<<212, 74, 35, 175, 142, 244, 17>>, 579),
         P(<<137, 29, 236, 90, 178, 113, 22>>, 582),
         P(<<235, 36, 167, 241, 30, 14, 28>>, 585),
         P(<<19, 119, 8, 87, 211, 136, 17>>, 589),
         P(<<215, 148, 202, 44, 8, 235, 21>>, 592),
         P(<<13, 58, 253, 55, 202, 101, 27>>, 595),
         P(<<72, 68, 254, 98, 158, 31, 17>>, 599),
         P(<<90, 213, 189, 251, 133, 103, 21>>, 602),
         P(<<177, 74, 173, 122, 103, 193, 26>>, 605),
         P(<<175, 78, 172, 172, 224, 184, 16>>, 609),
         P(<<90, 98, 215, 215, 24, 231, 20>>, 612),
         P(<<241, 58, 205, 13, 223, 32, 26>>, 615),
         P(<<214, 68, 160, 104, 139, 84, 16>>, 619),
         P(<<12, 86, 200, 66, 174, 105, 20>>, 622),
         P(<<143, 107, 122, 211, 25, 132, 25>>, 625),
         P(<<115, 6, 89, 72, 32, 229, 31>>, 628),
         P(<<8, 164, 55, 45, 52, 239, 19>>, 632),
         P(<<10, 141, 133, 56, 1, 235, 24>>, 635),
         P(<<76, 240, 166, 134, 193, 37, 31>>, 638),
         P(<<48, 86, 40, 244, 152, 119, 19>>, 642),
         P(<<187, 107, 50, 49, 127, 85, 24>>, 645),
         P(<<170, 6, 127, 253, 222, 106, 30>>, 648),
         P(<<42, 100, 111, 94, 203, 2, 19>>, 652),
         P(<<53, 61, 11, 54, 126, 195, 23>>, 655),
         P(<<130, 12, 142, 195, 93, 180, 29>>, 658),
         P(<<209, 199, 56, 154, 186, 144, 18>>, 662),
         P(<<198, 249, 198, 64, 233, 52, 23>>, 665),
         P(<<55, 184, 248, 144, 35, 2, 29>>, 668),
         P(<<35, 115, 155, 58, 86, 33, 18>>, 672),
         P(<<235, 79, 66, 201, 171, 169, 22>>, 675),
         P(<<230, 227, 146, 187, 22, 84, 28>>, 678),
         P(<<112, 206, 59, 53, 142, 180, 17>>, 682),
         P(<<12, 194, 138, 194, 177, 33, 22>>, 685),
         P(<<143, 114, 45, 51, 30, 170, 27>>, 688),
         P(<<153, 103, 252, 223, 82, 74, 17>>, 692),
         P(<<127, 129, 251, 151, 231, 156, 21>>, 695),
         P(<<223, 97, 250, 125, 33, 4, 27>>, 698),
         P(<<44, 125, 188, 238, 148, 226, 16>>, 702),
         P(<<118, 156, 107, 42, 58, 27, 21>>, 705),
         P(<<148, 131, 6, 181, 8, 98, 26>>, 708),
         P(<<61, 18, 36, 113, 69, 125, 16>>, 712),
         P(<<204, 22, 109, 205, 150, 156, 20>>, 715),
         P(<<127, 92, 200, 128, 188, 195, 25>>, 718),
         P(<<207, 57, 125, 208, 85, 26, 16>>, 722),
         P(<<67, 136, 156, 68, 235, 32, 20>>, 725),
         P(<<84, 170, 195, 21, 38, 41, 25>>, 728),
         P(<<233, 148, 52, 155, 111, 115, 31>>, 731),
         P(<<17, 221, 0, 193, 37, 168, 19>>, 735),
         P(<<86, 20, 65, 49, 47, 146, 24>>, 738),
         P(<<107, 89, 145, 253, 186, 182, 30>>, 741),
         P(<<227, 215, 122, 222, 52, 50, 19>>, 745),
         P(<<220, 141, 25, 22, 194, 254, 23>>, 748),
         P(<<83, 241, 159, 155, 114, 254, 29>>, 751),
         P(<<212, 246, 67, 161, 7, 191, 18>>, 755),
         P(<<137, 244, 148, 137, 201, 110, 23>>, 758),
         P(<<171, 49, 250, 235, 123, 74, 29>>, 761),
         P(<<11, 95, 124, 115, 141, 78, 18>>, 765),
         P(<<205, 118, 91, 208, 48, 226, 22>>, 768),
         P(<<129, 84, 114, 4, 189, 154, 28>>, 771),
         P(<<208, 116, 199, 34, 182, 224, 17>>, 775),
         P(<<4, 82, 121, 171, 227, 88, 22>>, 778),
         P(<<134, 166, 87, 150, 28, 239, 27>>, 781),
         P(<<20, 200, 246, 221, 113, 117, 17>>, 785),
         P(<<24, 122, 116, 85, 206, 210, 21>>, 788),
         P(<<158, 152, 209, 234, 129, 71, 27>>, 791),
         P(<<99, 255, 194, 50, 177, 12, 17>>, 795),
         P(<<60, 191, 115, 127, 221, 79, 21>>, 798),
         P(<<11, 175, 80, 223, 212, 163, 26>>, 801),
         P(<<103, 109, 146, 11, 101, 166, 16>>, 805),
         P(<<192, 8, 119, 78, 254, 207, 20>>, 808),
         P(<<241, 202, 20, 226, 253, 3, 26>>, 811),
         P(<<214, 254, 76, 173, 126, 66, 16>>, 815),
         P(<<140, 62, 160, 88, 30, 83, 20>>, 818),
         P(<<47, 78, 200, 238, 229, 103, 25>>, 821),
         P(<<187, 97, 122, 106, 223, 193, 31>>, 824),
         P(<<21, 125, 140, 162, 43, 217, 19>>, 828),
         P(<<90, 156, 47, 139, 118, 207, 24>>, 831),
         P(<<112, 131, 251, 45, 84, 3, 31>>, 834),
         P(<<38, 50, 189, 156, 20, 98, 19>>, 838),
         P(<<176, 126, 236, 195, 153, 58, 24>>, 841),
         P(<<92, 158, 231, 52, 64, 73, 30>>, 844),
         P(<<249, 194, 16, 33, 200, 237, 18>>, 848),
         P(<<184, 243, 84, 41, 58, 169, 23>>, 851),
         P(<<165, 48, 170, 179, 136, 147, 29>>, 854),
         P(<<103, 94, 74, 112, 53, 124, 18>>, 858),
         P(<<1, 246, 92, 204, 66, 27, 23>>, 861),
         P(<<130, 51, 116, 127, 19, 226, 28>>, 864),
         P(<<49, 160, 168, 47, 76, 13, 18>>, 868),
         P(<<61, 200, 146, 59, 159, 144, 22>>, 871),
         P(<<77, 122, 119, 10, 199, 52, 28>>, 874),
         P(<<112, 172, 138, 102, 252, 160, 17>>, 878),
         P(<<140, 87, 45, 128, 59, 9, 22>>, 881),
         P(<<111, 173, 56, 96, 138, 139, 27>>, 884),
         P(<<101, 108, 35, 124, 54, 55, 17>>, 888),
         P(<<127, 71, 44, 27, 4, 133, 21>>, 891),
         P(<<94, 89, 247, 33, 69, 230, 26>>, 894),
         P(<<219, 151, 58, 53, 235, 207, 16>>, 898),
         P(<<210, 61, 137, 2, 230, 3, 21>>, 901),
         P(<<70, 141, 43, 131, 223, 68, 26>>, 904),
         P(<<76, 56, 251, 177, 11, 107, 16>>, 908),
         P(<<95, 6, 122, 158, 206, 133, 20>>, 911),
         P(<<246, 135, 24, 70, 66, 167, 25>>, 914),
         P(<<250, 84, 207, 107, 137, 8, 16>>, 918),
         P(<<56, 42, 195, 198, 171, 10, 20>>, 921),
         P(<<199, 244, 115, 184, 86, 13, 25>>, 924),
         P(<<248, 241, 144, 102, 172, 80, 31>>, 927),
         P(<<59, 151, 26, 192, 107, 146, 19>>, 931),
         P(<<10, 61, 33, 176, 6, 119, 24>>, 934),
         P(<<76, 140, 41, 92, 200, 148, 30>>, 937),
         P(<<176, 247, 153, 57, 253, 28, 19>>, 941),
         P(<<156, 117, 0, 136, 60, 228, 23>>, 944),
         P(<<3, 147, 0, 170, 75, 221, 29>>, 947),
         P(<<226, 91, 64, 74, 79, 170, 18>>, 951),
         P(<<218, 114, 208, 28, 227, 84, 23>>, 954),
         P(<<144, 143, 4, 228, 27, 42, 29>>, 957),
         P(<<186, 217, 130, 110, 81, 58, 18>>, 961),
         P(<<41, 144, 35, 202, 229, 200, 22>>, 964),
         P(<<51, 116, 172, 60, 31, 123, 28>>, 967),
         P(<<160, 200, 235, 133, 243, 204, 17>>, 971)>>

\* the loop of f64_from_parts on the double f
RECURSIVE f64_from_parts_loop(_, _, _, _)
f64_from_parts_loop(i, positive, f, exponent) ==
    LET Signed(g) == Ok(JsonNumber(JsonFloat(IF positive THEN g ELSE F64Neg(g))), i)
        Product(g) == IF g.c = "inf" THEN Err("NumberOutOfRange", i) ELSE Signed(g)
        Quotient(g) ==
            IF exponent < -308 THEN f64_from_parts_loop(i, positive, g, exponent + 308)
            ELSE Signed(g)
    IN  IF (exponent > 308 \/ exponent < -308) /\ F64IsZero(f) THEN Signed(f)
        ELSE IF exponent > 308 THEN Err("NumberOutOfRange", i)
        ELSE IF exponent >= 0 THEN Product(F64Mul(f, POW10[exponent + 1]))
        ELSE Quotient(F64Div(f, POW10[(IF exponent < -308 THEN 308 ELSE -exponent) + 1]))

\* Deserializer::f64_from_parts: the significand as a double, scaled by one
\* multiplication or division by a power of ten from the table (after
\* divisions by 1e308 while the exponent is below -308); an infinite
\* product is an error
f64_from_parts(i, positive, significand, exponent) ==
    f64_from_parts_loop(i, positive, F64FromInt(FALSE, significand), exponent)

\* What a function of the number parser hands back to parse_integer: a
\* finished result, or the arguments of the f64_from_parts call it ends
\* with, which parse_integer then makes.
Done(r) == [parts |-> FALSE, r |-> r]
Parts(i, positive, significand, exponent) ==
    [parts |-> TRUE, i |-> i, positive |-> positive, significand |-> significand,
     exponent |-> exponent]

\* Deserializer::parse_exponent_overflow, i after the digit that overflowed
parse_exponent_overflow(b, i, positive, zero_significand, positive_exp) ==
    IF ~zero_significand /\ positive_exp THEN Done(Err("NumberOutOfRange", i))
    ELSE Done(Ok(JsonNumber(JsonFloat(F64Zero(~positive))), SkipDigits(b, i)))

\* Deserializer::parse_exponent, i at the byte after e or E
parse_exponent(b, i, positive, significand, starting_exp) ==
    LET positive_exp == Peek(b, i) # 45
        \* i32::saturating_add and i32::saturating_sub, for exp >= 0
        saturating_add(a, exp) ==
            IF a > 2147483647 - exp THEN 2147483647 ELSE a + exp
        saturating_sub(a, exp) ==
            IF a < (-2147483647 - 1) + exp THEN -2147483647 - 1 ELSE a - exp
        \* the digits after the first: each is read, then folded into exp
        \* unless overflow!(exp * 10 + digit, i32::MAX)
        RECURSIVE More(_, _)
        More(j, exp) ==
            IF ~IsDigit(Peek(b, j))
            THEN Parts(j, positive, significand,
                       IF positive_exp THEN saturating_add(starting_exp, exp)
                       ELSE saturating_sub(starting_exp, exp))
            ELSE IF exp >= 214748364 /\ (exp > 214748364 \/ Peek(b, j) - 48 > 7)
            THEN parse_exponent_overflow(b, j + 1, positive, significand = <<>>,
                                         positive_exp)
            ELSE More(j + 1, exp * 10 + (Peek(b, j) - 48))
        First(j) ==
            IF j >= Len(b) THEN Done(Err("EofWhileParsingValue", j))
            ELSE IF ~IsDigit(b[j + 1]) THEN Done(Err("InvalidNumber", j + 1))
            ELSE More(j + 1, b[j + 1] - 48)
    IN  First(IF Peek(b, i) = 43 \/ Peek(b, i) = 45 THEN i + 1 ELSE i)

\* Deserializer::parse_decimal_overflow: further digits are ignored
parse_decimal_overflow(b, i, positive, significand, exponent) ==
    LET j == SkipDigits(b, i)
    IN  IF Peek(b, j) = 101 \/ Peek(b, j) = 69
        THEN parse_exponent(b, j + 1, positive, significand, exponent)
        ELSE Parts(j, positive, significand, exponent)

\* Deserializer::parse_decimal, i at the byte after the point
parse_decimal(b, i, positive, significand, exponent_before_decimal_point) ==
    LET \* run: the digits after the point, which end at index run.i
        Fraction(run) ==
            IF run.overflow
            THEN parse_decimal_overflow(b, run.i, positive, run.v,
                                        exponent_before_decimal_point - run.n)
            ELSE IF run.n = 0 THEN
                (IF run.i < Len(b) THEN Done(Err("InvalidNumber", PeekAt(b, run.i)))
                 ELSE Done(Err("EofWhileParsingValue", PeekAt(b, run.i))))
            ELSE IF Peek(b, run.i) = 101 \/ Peek(b, run.i) = 69
            THEN parse_exponent(b, run.i + 1, positive, run.v,
                                exponent_before_decimal_point - run.n)
            ELSE Parts(run.i, positive, run.v, exponent_before_decimal_point - run.n)
    IN  Fraction(DigitRun(b, i, significand, 0))

\* Deserializer::parse_long_integer: the digits that no longer fit the u64
\* significand only raise the exponent
parse_long_integer(b, i, positive, significand) ==
    LET j == SkipDigits(b, i)
    IN  IF Peek(b, j) = 46
        THEN parse_decimal(b, j + 1, positive, significand, j - i)
        ELSE IF Peek(b, j) = 101 \/ Peek(b, j) = 69
        THEN parse_exponent(b, j + 1, positive, significand, j - i)
        ELSE Parts(j, positive, significand, j - i)

\* Deserializer::parse_number, after the integer part
parse_number(b, i, positive, significand) ==
    IF Peek(b, i) = 46 THEN parse_decimal(b, i + 1, positive, significand, 0)
    ELSE IF Peek(b, i) = 101 \/ Peek(b, i) = 69
    THEN parse_exponent(b, i + 1, positive, significand, 0)
    ELSE Done(Ok(JsonNumber(JsonInt(positive, significand)), i))

\* the f64_from_parts call a scan ends with, if it ends with one
FinishNumber(p) ==
    IF p.parts THEN f64_from_parts(p.i, p.positive, p.significand, p.exponent)
    ELSE p.r

\* Deserializer::parse_integer, i after an optional minus sign
parse_integer(b, i, positive) ==
    LET \* run: the digits of the integer part; a leading 0 stands alone
        Digits(run) ==
            IF b[i + 1] = 48 /\ IsDigit(Peek(b, i + 1))
            THEN Done(Err("InvalidNumber", PeekAt(b, i + 1)))
            ELSE IF run.overflow
            THEN parse_long_integer(b, run.i, positive, run.v)
            ELSE parse_number(b, run.i, positive, run.v)
    IN  FinishNumber(
            IF i >= Len(b) THEN Done(Err("EofWhileParsingValue", i))
            ELSE IF ~IsDigit(b[i + 1]) THEN Done(Err("InvalidNumber", i + 1))
            ELSE Digits(IF b[i + 1] = 48
                        THEN [v |-> <<>>, i |-> i + 1, n |-> 1, overflow |-> FALSE]
                        ELSE DigitRun(b, i, <<>>, 0)))
HexVal(c) ==
    IF IsDigit(c) THEN c - 48
    ELSE IF c >= 97 /\ c <= 102 THEN c - 87
    ELSE IF c >= 65 /\ c <= 70 THEN c - 55
    ELSE -1

\* SliceRead::decode_hex_escape: four hex digits from index i
decode_hex_escape(b, i) ==
    IF i + 4 > Len(b) THEN Err("EofWhileParsingString", Len(b))
    ELSE IF \E j \in 1..4 : HexVal(b[i + j]) < 0 THEN Err("InvalidEscape", i + 4)
    ELSE Ok(HexVal(b[i + 1]) * 4096 + HexVal(b[i + 2]) * 256
            + HexVal(b[i + 3]) * 16 + HexVal(b[i + 4]), i + 4)

\* parse_unicode_escape, i after the u: the scalar value as UTF-8 bytes
parse_unicode_escape(b, i) ==
    LET Low(n1, n2) ==
            IF ~n2.ok THEN n2
            ELSE IF n2.v < 56320 \/ n2.v > 57343
            THEN Err("LoneLeadingSurrogateInHexEscape", n2.i)
            ELSE Ok(Utf8Char(65536 + (n1.v - 55296) * 1024 + (n2.v - 56320)), n2.i)
        High(n1) ==
            IF ~n1.ok THEN n1
            ELSE IF n1.v >= 56320 /\ n1.v <= 57343
            THEN Err("LoneLeadingSurrogateInHexEscape", n1.i)
            ELSE IF n1.v >= 55296 /\ n1.v <= 56319 THEN
                (IF n1.i >= Len(b) THEN Err("EofWhileParsingString", Len(b))
                 ELSE IF Peek(b, n1.i) # 92
                 THEN Err("UnexpectedEndOfHexEscape", n1.i + 1)
                 ELSE IF n1.i + 1 >= Len(b) THEN Err("EofWhileParsingString", Len(b))
                 ELSE IF Peek(b, n1.i + 1) # 117
                 THEN Err("UnexpectedEndOfHexEscape", n1.i + 2)
                 ELSE Low(n1, decode_hex_escape(b, n1.i + 2)))
            ELSE Ok(Utf8Char(n1.v), n1.i)
    IN  High(decode_hex_escape(b, i))

\* the byte a one-letter escape stands for, or -1
SimpleEscape(c) ==
    IF c = 34 \/ c = 92 \/ c = 47 THEN c
    ELSE IF c = 98 THEN 8
    ELSE IF c = 102 THEN 12
    ELSE IF c = 110 THEN 10
    ELSE IF c = 114 THEN 13
    ELSE IF c = 116 THEN 9
    ELSE -1

\* SliceRead::parse_str, i after the opening quote: the bytes of the string
RECURSIVE parse_str(_, _, _)
parse_str(b, i, acc) ==
    LET Escaped(u) == IF u.ok THEN parse_str(b, u.i, acc \o u.v) ELSE u
        Simple(c) == IF c >= 0 THEN parse_str(b, i + 2, Append(acc, c))
                     ELSE Err("InvalidEscape", i + 2)
    IN  IF i >= Len(b) THEN Err("EofWhileParsingString", i)
        ELSE IF b[i + 1] = 34 THEN Ok(acc, i + 1)
        ELSE IF b[i + 1] = 92 THEN
            (IF i + 1 >= Len(b) THEN Err("EofWhileParsingString", i + 1)
             ELSE IF b[i + 2] = 117 THEN Escaped(parse_unicode_escape(b, i + 2))
             ELSE Simple(SimpleEscape(b[i + 2])))
        ELSE IF b[i + 1] < 32 THEN Err("ControlCharacterWhileParsingString", i + 1)
        ELSE parse_str(b, i + 1, Append(acc, b[i + 1]))

JsonString(bytes) == [t |-> "String", s |-> Unwrap(from_utf8(bytes))]

\* Map::insert: a later value for a key replaces the earlier one
MapInsert(o, key, val) ==
    IF \E j \in 1..Len(o) : o[j].key = key
    THEN [j \in 1..Len(o) |->
            IF o[j].key = key THEN [key |-> key, val |-> val] ELSE o[j]]
    ELSE Append(o, [key |-> key, val |-> val])

RECURSIVE deserialize_any(_, _, _)
RECURSIVE visit_seq(_, _, _, _, _)
RECURSIVE visit_map(_, _, _, _, _)

\* SeqAccess::next_element_seed in a loop, then end_seq.  (This and the two
\* definitions below choose by CASE with arms that exclude each other, which
\* TLC evaluates less deeply than IF within IF.)
visit_seq(b, i, first, acc, remaining_depth) ==
    LET Push(v) ==
            IF v.ok THEN visit_seq(b, v.i, FALSE, Append(acc, v.v), remaining_depth)
            ELSE v
        \* the first byte that is not whitespace, and its index
        j == SkipWs(b, i)
        c == Peek(b, SkipWs(b, i))
        \* an element is due: its first byte, and the index of that
        more == c \notin {93, -1} /\ (first \/ c = 44)
        e == IF first THEN j ELSE SkipWs(b, j + 1)
        ce == Peek(b, e)
    IN  CASE c = 93 -> Ok([t |-> "Array", a |-> acc], j + 1)
          [] c = -1 -> Err("EofWhileParsingList", PeekAt(b, j))
          [] c \notin {93, -1} /\ ~more -> Err("ExpectedListCommaOrEnd", PeekAt(b, j))
          [] more /\ ce = 93 -> Err("TrailingComma", PeekAt(b, e))
          [] more /\ ce = -1 -> Err("EofWhileParsingValue", PeekAt(b, e))
          [] OTHER -> Push(deserialize_any(b, e, remaining_depth))

\* MapAccess::next_key_seed and next_value_seed in a loop, then end_map
visit_map(b, i, first, acc, remaining_depth) ==
    LET \* key: what parse_str made of the key, v: the value read after it
        Insert(key, v) ==
            IF v.ok
            THEN visit_map(b, v.i, FALSE, MapInsert(acc, Unwrap(from_utf8(key.v)), v.v),
                           remaining_depth)
            ELSE v
        \* the first byte that is not whitespace, and its index
        j == SkipWs(b, i)
        c == Peek(b, SkipWs(b, i))
        \* a key is due: its first byte, and the index of that
        more == c \notin {125, -1} /\ (first \/ c = 44)
        e == IF first THEN j ELSE SkipWs(b, j + 1)
        ce == Peek(b, e)
        key == parse_str(b, e + 1, <<>>)
        \* the index where the colon is due, and the byte there
        col == SkipWs(b, key.i)
        cc == Peek(b, col)
    IN  CASE c = 125 -> Ok([t |-> "Object", o |-> acc], j + 1)
          [] c = -1 -> Err("EofWhileParsingObject", PeekAt(b, j))
          [] c \notin {125, -1} /\ ~more ->
                Err("ExpectedObjectCommaOrEnd", PeekAt(b, j))
          [] more /\ ce = 125 -> Err("TrailingComma", PeekAt(b, e))
          [] more /\ ce = -1 -> Err("EofWhileParsingValue", PeekAt(b, e))
          [] more /\ ce \notin {125, -1, 34} -> Err("KeyMustBeAString", PeekAt(b, e))
          [] more /\ ce = 34 /\ ~key.ok -> key
          [] more /\ ce = 34 /\ key.ok /\ cc = -1 ->
                Err("EofWhileParsingObject", PeekAt(b, col))
          [] more /\ ce = 34 /\ key.ok /\ cc \notin {-1, 58} ->
                Err("ExpectedColon", PeekAt(b, col))
          [] OTHER -> Insert(key, deserialize_any(b, col + 1, remaining_depth))

\* Deserializer::deserialize_any for the Value visitor.  remaining_depth is
\* the Deserializer's field of that name: an array or an object takes one
\* from it while its members are read (check_recursion!), and none may take
\* the last.
deserialize_any(b, i, remaining_depth) ==
    LET String(r) == IF r.ok THEN Ok(JsonString(r.v), r.i) ELSE r
        \* the first byte that is not whitespace, and its index
        j == SkipWs(b, i)
        c == Peek(b, SkipWs(b, i))
    IN  CASE c \in {91, 123} /\ remaining_depth - 1 = 0 ->
                Err("RecursionLimitExceeded", PeekAt(b, j))
          [] c = 91 /\ remaining_depth - 1 # 0 ->
                visit_seq(b, j + 1, TRUE, <<>>, remaining_depth - 1)
          [] c = 123 /\ remaining_depth - 1 # 0 ->
                visit_map(b, j + 1, TRUE, <<>>, remaining_depth - 1)
          [] c = -1 -> Err("EofWhileParsingValue", PeekAt(b, j))
          [] c = 110 -> parse_ident(b, j + 1, Str(<<"u", "l", "l">>), [t |-> "Null"])
          [] c = 116 ->
                parse_ident(b, j + 1, Str(<<"r", "u", "e">>), [t |-> "Bool", b |-> TRUE])
          [] c = 102 ->
                parse_ident(b, j + 1, Str(<<"a", "l", "s", "e">>),
                            [t |-> "Bool", b |-> FALSE])
          [] c = 45 \/ IsDigit(c) ->
                parse_integer(b, IF c = 45 THEN j + 1 ELSE j, c # 45)
          [] c = 34 -> String(parse_str(b, j + 1, <<>>))
          [] OTHER -> Err("ExpectedSomeValue", PeekAt(b, j))

\* SliceRead::position_of_index: line and column of byte index at
Position(b, at) ==
    LET nl == {j \in 1..at : b[j] = 10}
        last == IF nl = {} THEN 0 ELSE CHOOSE j \in nl : \A m \in nl : m <= j
    IN [line |-> 1 + Cardinality(nl), column |-> at - last]

\* <serde_json::Error as Display>::fmt
ErrorDisplay(b, e) ==
    LET p == Position(b, e.at) IN
    ErrorCodeDisplay(e.code) \o Str(<<" ", "a", "t", " ", "l", "i", "n", "e", " ">>)
        \o NatToString(p.line)
        \o Str(<<" ", "c", "o", "l", "u", "m", "n", " ">>)
        \o NatToString(p.column)

\* serde_json::from_str: a value, then Deserializer::end; [ok, v] or [ok, msg]
from_str(s) ==
    LET \* Deserializer::end: only whitespace may follow the value
        End(b, v, j) ==
            IF j < Len(b)
            THEN [ok |-> FALSE,
                  msg |-> ErrorDisplay(b, Err("TrailingCharacters", PeekAt(b, j)))]
            ELSE [ok |-> TRUE, v |-> v.v]
        Value(b, v) ==
            IF ~v.ok THEN [ok |-> FALSE, msg |-> ErrorDisplay(b, v)]
            ELSE End(b, v, SkipWs(b, v.i))
    IN  Value(as_bytes(s), deserialize_any(as_bytes(s), 0, 128))

\* Value::get with a string index: a member of an object, None otherwise
get(json, key) ==
    IF json.t = "Object" /\ \E j \in 1..Len(json.o) : json.o[j].key = key
    THEN Some((json.o[CHOOSE j \in 1..Len(json.o) : json.o[j].key = key]).val)
    ELSE None

\* a conversion that also reads a quoted numeral as the number it spells
as_f64_coercing(v) ==
    IF v.t = "Number"
    THEN Some(IF v.n.n = "Float" THEN v.n.f ELSE F64FromInt(v.n.n = "NegInt", v.n.i))
    ELSE IF v.t = "String" /\ \E n \in 0..99 : NatToString(n) = v.s
    THEN Some(F64FromInt(FALSE, NatToLimbs(CHOOSE n \in 0..99 : NatToString(n) = v.s)))
    ELSE None

\* Value::as_f64: every JSON number converts, nothing else does
as_f64(v) ==
    IF v.t = "Number"
    THEN Some(IF v.n.n = "Float" THEN v.n.f ELSE F64FromInt(v.n.n = "NegInt", v.n.i))
    ELSE None

\* Value::as_str
as_str(v) == IF v.t = "String" THEN Some(v.s) ELSE None

(***************************************************************************)
(* calculator (components/calculator/src/lib.rs)                           *)
(***************************************************************************)
calc_success_result(result) ==
    [content |-> <<[block |-> "Text", text |-> result, options |-> None]>>,
     is_error |-> None,
     meta |-> None,
     structured_content |-> None]

calc_error_result(message) ==
    [content |-> <<[block |-> "Text", text |-> message, options |-> None]>>,
     is_error |-> Some(TRUE),
     meta |-> None,
     structured_content |-> None]

\* a validation that looks at the parameter b before the parameter a
parse_args_b_first(arguments) ==
    LET Number(v) == IF IsSome(v) THEN as_f64(Unwrap(v)) ELSE None
        Both(a, b) ==
            IF ~IsSome(b)
            THEN [ok |-> FALSE,
                  msg |-> Str(<<"M", "i", "s", "s", "i", "n", "g", " ", "o", "r", " ", "i",
                      "n", "v", "a", "l", "i", "d", " ", "p", "a", "r", "a", "m", "e",
                      "t", "e", "r", " ", "'", "b", "'">>)]
            ELSE IF ~IsSome(a)
            THEN [ok |-> FALSE,
                  msg |-> Str(<<"M", "i", "s", "s", "i", "n", "g", " ", "o", "r", " ", "i",
                      "n", "v", "a", "l", "i", "d", " ", "p", "a", "r", "a", "m", "e",
                      "t", "e", "r", " ", "'", "a", "'">>)]
            ELSE [ok |-> TRUE, a |-> Unwrap(a), b |-> Unwrap(b)]
        Fields(json) ==
            IF ~json.ok
            THEN [ok |-> FALSE,
                  msg |-> Str(<<"I", "n", "v", "a", "l", "i", "d", " ", "J", "S", "O", "N",
                      " ", "a", "r", "g", "u", "m", "e", "n", "t", "s", ":", " ">>)
                      \o json.msg]
            ELSE Both(Number(get(json.v, Str(<<"a">>))),
                      Number(get(json.v, Str(<<"b">>))))
    IN  IF ~IsSome(arguments)
        THEN [ok |-> FALSE,
              msg |-> Str(<<"M", "i", "s", "s", "i", "n", "g", " ", "a", "r", "g", "u",
                  "m", "e", "n", "t", "s">>)]
        ELSE Fields(from_str(Unwrap(arguments)))

\* Result<(f64, f64), String>: [ok, a, b] or [ok, msg]
parse_args(arguments) ==
    LET MissingArguments ==
            Str(<<"M", "i", "s", "s", "i", "n", "g", " ", "a", "r", "g", "u", "m",
              "e", "n", "t", "s">>)
        InvalidJsonPrefix ==
            Str(<<"I", "n", "v", "a", "l", "i", "d", " ", "J", "S", "O", "N", " ",
              "a", "r", "g", "u", "m", "e", "n", "t", "s", ":", " ">>)
        MissingOrInvalidB ==
            Str(<<"M", "i", "s", "s", "i", "n", "g", " ", "o", "r", " ", "i", "n",
              "v", "a", "l", "i", "d", " ", "p", "a", "r", "a", "m", "e", "t", "e",
              "r", " ", "'", "b", "'">>)
        MissingOrInvalidA ==
            Str(<<"M", "i", "s", "s", "i", "n", "g", " ", "o", "r", " ", "i", "n",
              "v", "a", "l", "i", "d", " ", "p", "a", "r", "a", "m", "e", "t", "e",
              "r", " ", "'", "a", "'">>)
        Number(v) == IF IsSome(v) THEN as_f64(Unwrap(v)) ELSE None
        Both(a, b) ==
            IF ~IsSome(a) THEN [ok |-> FALSE, msg |-> MissingOrInvalidA]
            ELSE IF ~IsSome(b) THEN [ok |-> FALSE, msg |-> MissingOrInvalidB]
            ELSE [ok |-> TRUE, a |-> Unwrap(a), b |-> Unwrap(b)]
        Fields(json) ==
            IF ~json.ok
            THEN [ok |-> FALSE, msg |-> InvalidJsonPrefix \o json.msg]
            ELSE Both(Number(get(json.v, Str(<<"a">>))),
                      Number(get(json.v, Str(<<"b">>))))
    IN  IF ~IsSome(arguments) THEN [ok |-> FALSE, msg |-> MissingArguments]
        ELSE Fields(from_str(Unwrap(arguments)))

\* the closures handed to execute_operation
calc_closure(name, a, b) ==
    IF name = "add" THEN F64Add(a, b)
    ELSE IF name = "subtract" THEN F64Sub(a, b)
    ELSE F64Mul(a, b)

\* an operation that falls back to zero operands when the arguments do not parse
execute_operation_defaulting(arguments, name) ==
    LET Zero == F64Zero(FALSE)
        Result(p) ==
            IF p.ok THEN calc_success_result(DisplayF64(calc_closure(name, p.a, p.b)))
            ELSE calc_success_result(DisplayF64(calc_closure(name, Zero, Zero)))
    IN  Result(parse_args(arguments))

\* the arms of execute_operation's match on what parse_args returned
operation_match(p, name) ==
    IF p.ok THEN calc_success_result(DisplayF64(calc_closure(name, p.a, p.b)))
    ELSE calc_error_result(p.msg)

execute_operation(arguments, name) == operation_match(parse_args(arguments), name)

\* the arms of execute_divide's match on what parse_args returned
divide_match(p) ==
    LET DivisionByZero ==
            Str(<<"E", "r", "r", "o", "r", ":", " ", "D", "i", "v", "i", "s", "i",
              "o", "n", " ", "b", "y", " ", "z", "e", "r", "o">>)
    IN  IF ~p.ok THEN calc_error_result(p.msg)
        ELSE IF F64IsZero(p.b) THEN calc_error_result(DivisionByZero)
        ELSE calc_success_result(DisplayF64(F64Div(p.a, p.b)))

execute_divide(arguments) == divide_match(parse_args(arguments))

\* a dispatcher that answers a name it does not list with a diagnostic
\* instead of leaving the call to another provider
call_tool_reporting_unknown(req) ==
    IF req.name = Str(<<"a", "d", "d">>)
    THEN Some(execute_operation(req.arguments, "add"))
    ELSE IF req.name = Str(<<"s", "u", "b", "t", "r", "a", "c", "t">>)
    THEN Some(execute_operation(req.arguments, "subtract"))
    ELSE IF req.name = Str(<<"m", "u", "l", "t", "i", "p", "l", "y">>)
    THEN Some(execute_operation(req.arguments, "multiply"))
    ELSE IF req.name = Str(<<"d", "i", "v", "i", "d", "e">>)
    THEN Some(execute_divide(req.arguments))
    ELSE Some(calc_error_result(Str(<<"U", "n", "k", "n", "o", "w", "n", " ", "t", "o", "o", "l">>)))

calc_call_tool(req) ==
    IF req.name = Str(<<"a", "d", "d">>)
    THEN Some(execute_operation(req.arguments, "add"))
    ELSE IF req.name = Str(<<"s", "u", "b", "t", "r", "a", "c", "t">>)
    THEN Some(execute_operation(req.arguments, "subtract"))
    ELSE IF req.name = Str(<<"m", "u", "l", "t", "i", "p", "l", "y">>)
    THEN Some(execute_operation(req.arguments, "multiply"))
    ELSE IF req.name = Str(<<"d", "i", "v", "i", "d", "e">>)
    THEN Some(execute_divide(req.arguments))
    ELSE None

ToolOptions(description, title) ==
    Some([meta |-> None, annotations |-> None, description |-> Some(description),
          output_schema |-> None, title |-> Some(title)])

calc_tools ==
    <<[name |-> Str(<<"a", "d", "d">>),
       input_schema |->
            Str(<<"{">>) \o <<10>> \o Repeat(32, 24) \o Str(<<"\"", "t", "y", "p",
              "e", "\"", ":", " ", "\"", "o", "b", "j", "e", "c", "t", "\"",
              ",">>) \o <<10>> \o Repeat(32, 24) \o Str(<<"\"", "p", "r", "o", "p",
              "e", "r", "t", "i", "e", "s", "\"", ":", " ",
              "{">>) \o <<10>> \o Repeat(32, 28) \o Str(<<"\"", "a", "\"", ":", " ",
              "{", "\"", "t", "y", "p", "e", "\"", ":", " ", "\"", "n", "u", "m",
              "b", "e", "r", "\"", ",", " ", "\"", "d", "e", "s", "c", "r", "i", "p",
              "t", "i", "o", "n", "\"", ":", " ", "\"", "F", "i", "r", "s", "t", " ",
              "n", "u", "m", "b", "e", "r", "\"", "}", ",">>) \o <<10>> \o Repeat(32,
              28) \o Str(<<"\"", "b", "\"", ":", " ", "{", "\"", "t", "y", "p", "e",
              "\"", ":", " ", "\"", "n", "u", "m", "b", "e", "r", "\"", ",", " ",
              "\"", "d", "e", "s", "c", "r", "i", "p", "t", "i", "o", "n", "\"", ":",
              " ", "\"", "S", "e", "c", "o", "n", "d", " ", "n", "u", "m", "b", "e",
              "r", "\"", "}">>) \o <<10>> \o Repeat(32, 24) \o Str(<<"}",
              ",">>) \o <<10>> \o Repeat(32, 24) \o Str(<<"\"", "r", "e", "q", "u",
              "i", "r", "e", "d", "\"", ":", " ", "[", "\"", "a", "\"", ",", " ",
              "\"", "b", "\"", "]">>) \o <<10>> \o Repeat(32, 20) \o Str(<<"}">>),
       options |-> ToolOptions(
            Str(<<"A", "d", "d", " ", "t", "w", "o", " ", "n", "u", "m", "b",
              "e", "r", "s", " ", "t", "o", "g", "e", "t", "h", "e", "r">>),
            Str(<<"A", "d", "d">>))],
      [name |-> Str(<<"s", "u", "b", "t", "r", "a", "c", "t">>),
       input_schema |->
            Str(<<"{">>) \o <<10>> \o Repeat(32, 24) \o Str(<<"\"", "t", "y", "p",
              "e", "\"", ":", " ", "\"", "o", "b", "j", "e", "c", "t", "\"",
              ",">>) \o <<10>> \o Repeat(32, 24) \o Str(<<"\"", "p", "r", "o", "p",
              "e", "r", "t", "i", "e", "s", "\"", ":", " ",
              "{">>) \o <<10>> \o Repeat(32, 28) \o Str(<<"\"", "a", "\"", ":", " ",
              "{", "\"", "t", "y", "p", "e", "\"", ":", " ", "\"", "n", "u", "m",
              "b", "e", "r", "\"", ",", " ", "\"", "d", "e", "s", "c", "r", "i", "p",
              "t", "i", "o", "n", "\"", ":", " ", "\"", "N", "u", "m", "b", "e", "r",
              " ", "t", "o", " ", "s", "u", "b", "t", "r", "a", "c", "t", " ", "f",
              "r", "o", "m", "\"", "}", ",">>) \o <<10>> \o Repeat(32,
              28) \o Str(<<"\"", "b", "\"", ":", " ", "{", "\"", "t", "y", "p", "e",
              "\"", ":", " ", "\"", "n", "u", "m", "b", "e", "r", "\"", ",", " ",
              "\"", "d", "e", "s", "c", "r", "i", "p", "t", "i", "o", "n", "\"", ":",
              " ", "\"", "N", "u", "m", "b", "e", "r", " ", "t", "o", " ", "s", "u",
              "b", "t", "r", "a", "c", "t", "\"", "}">>) \o <<10>> \o Repeat(32,
              24) \o Str(<<"}", ",">>) \o <<10>> \o Repeat(32, 24) \o Str(<<"\"",
              "r", "e", "q", "u", "i", "r", "e", "d", "\"", ":", " ", "[", "\"", "a",
              "\"", ",", " ", "\"", "b", "\"", "]">>) \o <<10>> \o Repeat(32,
              20) \o Str(<<"}">>),
       options |-> ToolOptions(
            Str(<<"S", "u", "b", "t", "r", "a", "c", "t", " ", "b", " ", "f",
              "r", "o", "m", " ", "a">>),
            Str(<<"S", "u", "b", "t", "r", "a", "c", "t">>))],
      [name |-> Str(<<"m", "u", "l", "t", "i", "p", "l", "y">>),
       input_schema |->
            Str(<<"{">>) \o <<10>> \o Repeat(32, 24) \o Str(<<"\"", "t", "y", "p",
              "e", "\"", ":", " ", "\"", "o", "b", "j", "e", "c", "t", "\"",
              ",">>) \o <<10>> \o Repeat(32, 24) \o Str(<<"\"", "p", "r", "o", "p",
              "e", "r", "t", "i", "e", "s", "\"", ":", " ",
              "{">>) \o <<10>> \o Repeat(32, 28) \o Str(<<"\"", "a", "\"", ":", " ",
              "{", "\"", "t", "y", "p", "e", "\"", ":", " ", "\"", "n", "u", "m",
              "b", "e", "r", "\"", ",", " ", "\"", "d", "e", "s", "c", "r", "i", "p",
              "t", "i", "o", "n", "\"", ":", " ", "\"", "F", "i", "r", "s", "t", " ",
              "n", "u", "m", "b", "e", "r", "\"", "}", ",">>) \o <<10>> \o Repeat(32,
              28) \o Str(<<"\"", "b", "\"", ":", " ", "{", "\"", "t", "y", "p", "e",
              "\"", ":", " ", "\"", "n", "u", "m", "b", "e", "r", "\"", ",", " ",
              "\"", "d", "e", "s", "c", "r", "i", "p", "t", "i", "o", "n", "\"", ":",
              " ", "\"", "S", "e", "c", "o", "n", "d", " ", "n", "u", "m", "b", "e",
              "r", "\"", "}">>) \o <<10>> \o Repeat(32, 24) \o Str(<<"}",
              ",">>) \o <<10>> \o Repeat(32, 24) \o Str(<<"\"", "r", "e", "q", "u",
              "i", "r", "e", "d", "\"", ":", " ", "[", "\"", "a", "\"", ",", " ",
              "\"", "b", "\"", "]">>) \o <<10>> \o Repeat(32, 20) \o Str(<<"}">>),
       options |-> ToolOptions(
            Str(<<"M", "u", "l", "t", "i", "p", "l", "y", " ", "t", "w", "o",
              " ", "n", "u", "m", "b", "e", "r", "s">>),
            Str(<<"M", "u", "l", "t", "i", "p", "l", "y">>))],
      [name |-> Str(<<"d", "i", "v", "i", "d", "e">>),
       input_schema |->
            Str(<<"{">>) \o <<10>> \o Repeat(32, 24) \o Str(<<"\"", "t", "y", "p",
              "e", "\"", ":", " ", "\"", "o", "b", "j", "e", "c", "t", "\"",
              ",">>) \o <<10>> \o Repeat(32, 24) \o Str(<<"\"", "p", "r", "o", "p",
              "e", "r", "t", "i", "e", "s", "\"", ":", " ",
              "{">>) \o <<10>> \o Repeat(32, 28) \o Str(<<"\"", "a", "\"", ":", " ",
              "{", "\"", "t", "y", "p", "e", "\"", ":", " ", "\"", "n", "u", "m",
              "b", "e", "r", "\"", ",", " ", "\"", "d", "e", "s", "c", "r", "i", "p",
              "t", "i", "o", "n", "\"", ":", " ", "\"", "D", "i", "v", "i", "d", "e",
              "n", "d", "\"", "}", ",">>) \o <<10>> \o Repeat(32, 28) \o Str(<<"\"",
              "b", "\"", ":", " ", "{", "\"", "t", "y", "p", "e", "\"", ":", " ",
              "\"", "n", "u", "m", "b", "e", "r", "\"", ",", " ", "\"", "d", "e",
              "s", "c", "r", "i", "p", "t", "i", "o", "n", "\"", ":", " ", "\"", "D",
              "i", "v", "i", "s", "o", "r", "\"", "}">>) \o <<10>> \o Repeat(32,
              24) \o Str(<<"}", ",">>) \o <<10>> \o Repeat(32, 24) \o Str(<<"\"",
              "r", "e", "q", "u", "i", "r", "e", "d", "\"", ":", " ", "[", "\"", "a",
              "\"", ",", " ", "\"", "b", "\"", "]">>) \o <<10>> \o Repeat(32,
              20) \o Str(<<"}">>),
       options |-> ToolOptions(
            Str(<<"D", "i", "v", "i", "d", "e", " ", "a", " ", "b", "y", " ",
              "b">>),
            Str(<<"D", "i", "v", "i", "d", "e">>))]>>

\* a listing that treats a cursor as the end of the catalog
list_tools_paged(req) ==
    [ok |-> TRUE,
     val |-> [tools |-> IF IsSome(req.cursor) THEN <<>> ELSE calc_tools,
              next_cursor |-> None, meta |-> None]]

\* Result<ListToolsResult, ErrorCode>: always Ok
calc_list_tools(req) ==
    [ok |-> TRUE,
     val |-> [tools |-> calc_tools, next_cursor |-> None, meta |-> None]]

(***************************************************************************)
(* string-utils (components/string-utils/src/lib.rs)                       *)
(***************************************************************************)
str_success_result(result) ==
    [content |-> <<[block |-> "Text", text |-> result, options |-> None]>>,
     is_error |-> None,
     meta |-> None,
     structured_content |-> None]

\* a failure envelope that forgets the error flag
error_result_unflagged(message) ==
    [content |-> <<[block |-> "Text", text |-> message, options |-> None]>>,
     is_error |-> None,
     meta |-> None,
     structured_content |-> None]

str_error_result(message) ==
    [content |-> <<[block |-> "Text", text |-> message, options |-> None]>>,
     is_error |-> Some(TRUE),
     meta |-> None,
     structured_content |-> None]

\* Result<String, String>: [ok, text] or [ok, msg]
str_parse_text_arg(arguments) ==
    LET MissingArguments ==
            Str(<<"M", "i", "s", "s", "i", "n", "g", " ", "a", "r", "g", "u", "m",
              "e", "n", "t", "s">>)
        InvalidJsonPrefix ==
            Str(<<"I", "n", "v", "a", "l", "i", "d", " ", "J", "S", "O", "N", " ",
              "a", "r", "g", "u", "m", "e", "n", "t", "s", ":", " ">>)
        MissingOrInvalidText ==
            Str(<<"M", "i", "s", "s", "i", "n", "g", " ", "o", "r", " ", "i", "n",
              "v", "a", "l", "i", "d", " ", "p", "a", "r", "a", "m", "e", "t", "e",
              "r", " ", "'", "t", "e", "x", "t", "'">>)
        String(v) == IF IsSome(v) THEN as_str(Unwrap(v)) ELSE None
        Text(text) ==
            IF ~IsSome(text) THEN [ok |-> FALSE, msg |-> MissingOrInvalidText]
            ELSE [ok |-> TRUE, text |-> Unwrap(text)]
        Field(json) ==
            IF ~json.ok
            THEN [ok |-> FALSE, msg |-> InvalidJsonPrefix \o json.msg]
            ELSE Text(String(get(json.v, Str(<<"t", "e", "x", "t">>))))
    IN  IF ~IsSome(arguments) THEN [ok |-> FALSE, msg |-> MissingArguments]
        ELSE Field(from_str(Unwrap(arguments)))

\* a mapping that swaps the case of ASCII letters
swap_case_char(c) ==
    IF c >= 97 /\ c <= 122 THEN <<c - 32>>
    ELSE IF c >= 65 /\ c <= 90 THEN <<c + 32>>
    ELSE <<c>>

\* core::unicode::unicode_data::conversions::LOWERCASE_TABLE, the characters
\* above U+007F that char::to_lowercase maps to one other character (Unicode
\* 17.0), runs of the table written as one entry: <<first, last, step, offset>>
\* stands for first, first + step, .. last, each mapped to itself plus offset.
LOWERCASE_TABLE ==
    {<<192, 214, 1, 32>>, <<216, 222, 1, 32>>, <<256, 302, 2, 1>>, <<306, 310, 2, 1>>,
     <<313, 327, 2, 1>>, <<330, 374, 2, 1>>, <<376, 376, 1, -121>>, <<377, 381, 2, 1>>,
     <<385, 385, 1, 210>>, <<386, 388, 2, 1>>, <<390, 390, 1, 206>>, <<391, 391, 1, 1>>,
     <<393, 394, 1, 205>>, <<395, 395, 1, 1>>, <<398, 398, 1, 79>>, <<399, 399, 1, 202>>,
     <<400, 400, 1, 203>>, <<401, 401, 1, 1>>, <<403, 403, 1, 205>>, <<404, 404, 1, 207>>,
     <<406, 406, 1, 211>>, <<407, 407, 1, 209>>, <<408, 408, 1, 1>>, <<412, 412, 1, 211>>,
     <<413, 413, 1, 213>>, <<415, 415, 1, 214>>, <<416, 420, 2, 1>>, <<422, 422, 1, 218>>,
     <<423, 423, 1, 1>>, <<425, 425, 1, 218>>, <<428, 428, 1, 1>>, <<430, 430, 1, 218>>,
     <<431, 431, 1, 1>>, <<433, 434, 1, 217>>, <<435, 437, 2, 1>>, <<439, 439, 1, 219>>,
     <<440, 440, 1, 1>>, <<444, 444, 1, 1>>, <<452, 452, 1, 2>>, <<453, 453, 1, 1>>,
     <<455, 455, 1, 2>>, <<456, 456, 1, 1>>, <<458, 458, 1, 2>>, <<459, 475, 2, 1>>,
     <<478, 494, 2, 1>>, <<497, 497, 1, 2>>, <<498, 500, 2, 1>>, <<502, 502, 1, -97>>,
     <<503, 503, 1, -56>>, <<504, 542, 2, 1>>, <<544, 544, 1, -130>>, <<546, 562, 2, 1>>,
     <<570, 570, 1, 10795>>, <<571, 571, 1, 1>>, <<573, 573, 1, -163>>, <<574, 574, 1, 10792>>,
     <<577, 577, 1, 1>>, <<579, 579, 1, -195>>, <<580, 580, 1, 69>>, <<581, 581, 1, 71>>,
     <<582, 590, 2, 1>>, <<880, 882, 2, 1>>, <<886, 886, 1, 1>>, <<895, 895, 1, 116>>,
     <<902, 902, 1, 38>>, <<904, 906, 1, 37>>, <<908, 908, 1, 64>>, <<910, 911, 1, 63>>,
     <<913, 929, 1, 32>>, <<931, 939, 1, 32>>, <<975, 975, 1, 8>>, <<984, 1006, 2, 1>>,
     <<1012, 1012, 1, -60>>, <<1015, 1015, 1, 1>>, <<1017, 1017, 1, -7>>, <<1018, 1018, 1, 1>>,
     <<1021, 1023, 1, -130>>, <<1024, 1039, 1, 80>>, <<1040, 1071, 1, 32>>, <<1120, 1152, 2, 1>>,
     <<1162, 1214, 2, 1>>, <<1216, 1216, 1, 15>>, <<1217, 1229, 2, 1>>, <<1232, 1326, 2, 1>>,
     <<1329, 1366, 1, 48>>, <<4256, 4293, 1, 7264>>, <<4295, 4295, 1, 7264>>, <<4301, 4301, 1, 7264>>,
     <<5024, 5103, 1, 38864>>, <<5104, 5109, 1, 8>>, <<7305, 7305, 1, 1>>, <<7312, 7354, 1, -3008>>,
     <<7357, 7359, 1, -3008>>, <<7680, 7828, 2, 1>>, <<7838, 7838, 1, -7615>>, <<7840, 7934, 2, 1>>,
     <<7944, 7951, 1, -8>>, <<7960, 7965, 1, -8>>, <<7976, 7983, 1, -8>>, <<7992, 7999, 1, -8>>,
     <<8008, 8013, 1, -8>>, <<8025, 8031, 2, -8>>, <<8040, 8047, 1, -8>>, <<8072, 8079, 1, -8>>,
     <<8088, 8095, 1, -8>>, <<8104, 8111, 1, -8>>, <<8120, 8121, 1, -8>>, <<8122, 8123, 1, -74>>,
     <<8124, 8124, 1, -9>>, <<8136, 8139, 1, -86>>, <<8140, 8140, 1, -9>>, <<8152, 8153, 1, -8>>,
     <<8154, 8155, 1, -100>>, <<8168, 8169, 1, -8>>, <<8170, 8171, 1, -112>>, <<8172, 8172, 1, -7>>,
     <<8184, 8185, 1, -128>>, <<8186, 8187, 1, -126>>, <<8188, 8188, 1, -9>>, <<8486, 8486, 1, -7517>>,
     <<8490, 8490, 1, -8383>>, <<8491, 8491, 1, -8262>>, <<8498, 8498, 1, 28>>, <<8544, 8559, 1, 16>>,
     <<8579, 8579, 1, 1>>, <<9398, 9423, 1, 26>>, <<11264, 11311, 1, 48>>, <<11360, 11360, 1, 1>>,
     <<11362, 11362, 1, -10743>>, <<11363, 11363, 1, -3814>>, <<11364, 11364, 1, -10727>>, <<11367, 11371, 2, 1>>,
     <<11373, 11373, 1, -10780>>, <<11374, 11374, 1, -10749>>, <<11375, 11375, 1, -10783>>, <<11376, 11376, 1, -10782>>,
     <<11378, 11378, 1, 1>>, <<11381, 11381, 1, 1>>, <<11390, 11391, 1, -10815>>, <<11392, 11490, 2, 1>>,
     <<11499, 11501, 2, 1>>, <<11506, 11506, 1, 1>>, <<42560, 42604, 2, 1>>, <<42624, 42650, 2, 1>>,
     <<42786, 42798, 2, 1>>, <<42802, 42862, 2, 1>>, <<42873, 42875, 2, 1>>, <<42877, 42877, 1, -35332>>,
     <<42878, 42886, 2, 1>>, <<42891, 42891, 1, 1>>, <<42893, 42893, 1, -42280>>, <<42896, 42898, 2, 1>>,
     <<42902, 42920, 2, 1>>, <<42922, 42922, 1, -42308>>, <<42923, 42923, 1, -42319>>, <<42924, 42924, 1, -42315>>,
     <<42925, 42925, 1, -42305>>, <<42926, 42926, 1, -42308>>, <<42928, 42928, 1, -42258>>, <<42929, 42929, 1, -42282>>,
     <<42930, 42930, 1, -42261>>, <<42931, 42931, 1, 928>>, <<42932, 42946, 2, 1>>, <<42948, 42948, 1, -48>>,
     <<42949, 42949, 1, -42307>>, <<42950, 42950, 1, -35384>>, <<42951, 42953, 2, 1>>, <<42955, 42955, 1, -42343>>,
     <<42956, 42970, 2, 1>>, <<42972, 42972, 1, -42561>>, <<42997, 42997, 1, 1>>, <<65313, 65338, 1, 32>>,
     <<66560, 66599, 1, 40>>, <<66736, 66771, 1, 40>>, <<66928, 66938, 1, 39>>, <<66940, 66954, 1, 39>>,
     <<66956, 66962, 1, 39>>, <<66964, 66965, 1, 39>>, <<68736, 68786, 1, 64>>, <<68944, 68965, 1, 32>>,
     <<71840, 71871, 1, 32>>, <<93760, 93791, 1, 32>>, <<93856, 93880, 1, 27>>, <<125184, 125217, 1, 34>>}

\* conversions::UPPERCASE_TABLE, written as LOWERCASE_TABLE is
UPPERCASE_TABLE ==
    {<<181, 181, 1, 743>>, <<224, 246, 1, -32>>, <<248, 254, 1, -32>>, <<255, 255, 1, 121>>,
     <<257, 303, 2, -1>>, <<305, 305, 1, -232>>, <<307, 311, 2, -1>>, <<314, 328, 2, -1>>,
     <<331, 375, 2, -1>>, <<378, 382, 2, -1>>, <<383, 383, 1, -300>>, <<384, 384, 1, 195>>,
     <<387, 389, 2, -1>>, <<392, 392, 1, -1>>, <<396, 396, 1, -1>>, <<402, 402, 1, -1>>,
     <<405, 405, 1, 97>>, <<409, 409, 1, -1>>, <<410, 410, 1, 163>>, <<411, 411, 1, 42561>>,
     <<414, 414, 1, 130>>, <<417, 421, 2, -1>>, <<424, 424, 1, -1>>, <<429, 429, 1, -1>>,
     <<432, 432, 1, -1>>, <<436, 438, 2, -1>>, <<441, 441, 1, -1>>, <<445, 445, 1, -1>>,
     <<447, 447, 1, 56>>, <<453, 453, 1, -1>>, <<454, 454, 1, -2>>, <<456, 456, 1, -1>>,
     <<457, 457, 1, -2>>, <<459, 459, 1, -1>>, <<460, 460, 1, -2>>, <<462, 476, 2, -1>>,
     <<477, 477, 1, -79>>, <<479, 495, 2, -1>>, <<498, 498, 1, -1>>, <<499, 499, 1, -2>>,
     <<501, 501, 1, -1>>, <<505, 543, 2, -1>>, <<547, 563, 2, -1>>, <<572, 572, 1, -1>>,
     <<575, 576, 1, 10815>>, <<578, 578, 1, -1>>, <<583, 591, 2, -1>>, <<592, 592, 1, 10783>>,
     <<593, 593, 1, 10780>>, <<594, 594, 1, 10782>>, <<595, 595, 1, -210>>, <<596, 596, 1, -206>>,
     <<598, 599, 1, -205>>, <<601, 601, 1, -202>>, <<603, 603, 1, -203>>, <<604, 604, 1, 42319>>,
     <<608, 608, 1, -205>>, <<609, 609, 1, 42315>>, <<611, 611, 1, -207>>, <<612, 612, 1, 42343>>,
     <<613, 613, 1, 42280>>, <<614, 614, 1, 42308>>, <<616, 616, 1, -209>>, <<617, 617, 1, -211>>,
     <<618, 618, 1, 42308>>, <<619, 619, 1, 10743>>, <<620, 620, 1, 42305>>, <<623, 623, 1, -211>>,
     <<625, 625, 1, 10749>>, <<626, 626, 1, -213>>, <<629, 629, 1, -214>>, <<637, 637, 1, 10727>>,
     <<640, 640, 1, -218>>, <<642, 642, 1, 42307>>, <<643, 643, 1, -218>>, <<647, 647, 1, 42282>>,
     <<648, 648, 1, -218>>, <<649, 649, 1, -69>>, <<650, 651, 1, -217>>, <<652, 652, 1, -71>>,
     <<658, 658, 1, -219>>, <<669, 669, 1, 42261>>, <<670, 670, 1, 42258>>, <<837, 837, 1, 84>>,
     <<881, 883, 2, -1>>, <<887, 887, 1, -1>>, <<891, 893, 1, 130>>, <<940, 940, 1, -38>>,
     <<941, 943, 1, -37>>, <<945, 961, 1, -32>>, <<962, 962, 1, -31>>, <<963, 971, 1, -32>>,
     <<972, 972, 1, -64>>, <<973, 974, 1, -63>>, <<976, 976, 1, -62>>, <<977, 977, 1, -57>>,
     <<981, 981, 1, -47>>, <<982, 982, 1, -54>>, <<983, 983, 1, -8>>, <<985, 1007, 2, -1>>,
     <<1008, 1008, 1, -86>>, <<1009, 1009, 1, -80>>, <<1010, 1010, 1, 7>>, <<1011, 1011, 1, -116>>,
     <<1013, 1013, 1, -96>>, <<1016, 1016, 1, -1>>, <<1019, 1019, 1, -1>>, <<1072, 1103, 1, -32>>,
     <<1104, 1119, 1, -80>>, <<1121, 1153, 2, -1>>, <<1163, 1215, 2, -1>>, <<1218, 1230, 2, -1>>,
     <<1231, 1231, 1, -15>>, <<1233, 1327, 2, -1>>, <<1377, 1414, 1, -48>>, <<4304, 4346, 1, 3008>>,
     <<4349, 4351, 1, 3008>>, <<5112, 5117, 1, -8>>, <<7296, 7296, 1, -6254>>, <<7297, 7297, 1, -6253>>,
     <<7298, 7298, 1, -6244>>, <<7299, 7300, 1, -6242>>, <<7301, 7301, 1, -6243>>, <<7302, 7302, 1, -6236>>,
     <<7303, 7303, 1, -6181>>, <<7304, 7304, 1, 35266>>, <<7306, 7306, 1, -1>>, <<7545, 7545, 1, 35332>>,
     <<7549, 7549, 1, 3814>>, <<7566, 7566, 1, 35384>>, <<7681, 7829, 2, -1>>, <<7835, 7835, 1, -59>>,
     <<7841, 7935, 2, -1>>, <<7936, 7943, 1, 8>>, <<7952, 7957, 1, 8>>, <<7968, 7975, 1, 8>>,
     <<7984, 7991, 1, 8>>, <<8000, 8005, 1, 8>>, <<8017, 8023, 2, 8>>, <<8032, 8039, 1, 8>>,
     <<8048, 8049, 1, 74>>, <<8050, 8053, 1, 86>>, <<8054, 8055, 1, 100>>, <<8056, 8057, 1, 128>>,
     <<8058, 8059, 1, 112>>, <<8060, 8061, 1, 126>>, <<8112, 8113, 1, 8>>, <<8126, 8126, 1, -7205>>,
     <<8144, 8145, 1, 8>>, <<8160, 8161, 1, 8>>, <<8165, 8165, 1, 7>>, <<8526, 8526, 1, -28>>,
     <<8560, 8575, 1, -16>>, <<8580, 8580, 1, -1>>, <<9424, 9449, 1, -26>>, <<11312, 11359, 1, -48>>,
     <<11361, 11361, 1, -1>>, <<11365, 11365, 1, -10795>>, <<11366, 11366, 1, -10792>>, <<11368, 11372, 2, -1>>,
     <<11379, 11379, 1, -1>>, <<11382, 11382, 1, -1>>, <<11393, 11491, 2, -1>>, <<11500, 11502, 2, -1>>,
     <<11507, 11507, 1, -1>>, <<11520, 11557, 1, -7264>>, <<11559, 11559, 1, -7264>>, <<11565, 11565, 1, -7264>>,
     <<42561, 42605, 2, -1>>, <<42625, 42651, 2, -1>>, <<42787, 42799, 2, -1>>, <<42803, 42863, 2, -1>>,
     <<42874, 42876, 2, -1>>, <<42879, 42887, 2, -1>>, <<42892, 42892, 1, -1>>, <<42897, 42899, 2, -1>>,
     <<42900, 42900, 1, 48>>, <<42903, 42921, 2, -1>>, <<42933, 42947, 2, -1>>, <<42952, 42954, 2, -1>>,
     <<42957, 42971, 2, -1>>, <<42998, 42998, 1, -1>>, <<43859, 43859, 1, -928>>, <<43888, 43967, 1, -38864>>,
     <<65345, 65370, 1, -32>>, <<66600, 66639, 1, -40>>, <<66776, 66811, 1, -40>>, <<66967, 66977, 1, -39>>,
     <<66979, 66993, 1, -39>>, <<66995, 67001, 1, -39>>, <<67003, 67004, 1, -39>>, <<68800, 68850, 1, -64>>,
     <<68976, 68997, 1, -32>>, <<71872, 71903, 1, -32>>, <<93792, 93823, 1, -32>>, <<93883, 93907, 1, -27>>,
     <<125218, 125251, 1, -34>>}

\* UPPERCASE_TABLE_MULTI: the characters whose uppercase is two or three
\* characters, each with them
UPPERCASE_TABLE_MULTI ==
    {<<223, <<83, 83>>>>, <<329, <<700, 78>>>>, <<496, <<74, 780>>>>,
     <<912, <<921, 776, 769>>>>, <<944, <<933, 776, 769>>>>, <<1415, <<1333, 1362>>>>,
     <<7830, <<72, 817>>>>, <<7831, <<84, 776>>>>, <<7832, <<87, 778>>>>,
     <<7833, <<89, 778>>>>, <<7834, <<65, 702>>>>, <<8016, <<933, 787>>>>,
     <<8018, <<933, 787, 768>>>>, <<8020, <<933, 787, 769>>>>, <<8022, <<933, 787, 834>>>>,
     <<8064, <<7944, 921>>>>, <<8065, <<7945, 921>>>>, <<8066, <<7946, 921>>>>,
     <<8067, <<7947, 921>>>>, <<8068, <<7948, 921>>>>, <<8069, <<7949, 921>>>>,
     <<8070, <<7950, 921>>>>, <<8071, <<7951, 921>>>>, <<8072, <<7944, 921>>>>,
     <<8073, <<7945, 921>>>>, <<8074, <<7946, 921>>>>, <<8075, <<7947, 921>>>>,
     <<8076, <<7948, 921>>>>, <<8077, <<7949, 921>>>>, <<8078, <<7950, 921>>>>,
     <<8079, <<7951, 921>>>>, <<8080, <<7976, 921>>>>, <<8081, <<7977, 921>>>>,
     <<8082, <<7978, 921>>>>, <<8083, <<7979, 921>>>>, <<8084, <<7980, 921>>>>,
     <<8085, <<7981, 921>>>>, <<8086, <<7982, 921>>>>, <<8087, <<7983, 921>>>>,
     <<8088, <<7976, 921>>>>, <<8089, <<7977, 921>>>>, <<8090, <<7978, 921>>>>,
     <<8091, <<7979, 921>>>>, <<8092, <<7980, 921>>>>, <<8093, <<7981, 921>>>>,
     <<8094, <<7982, 921>>>>, <<8095, <<7983, 921>>>>, <<8096, <<8040, 921>>>>,
     <<8097, <<8041, 921>>>>, <<8098, <<8042, 921>>>>, <<8099, <<8043, 921>>>>,
     <<8100, <<8044, 921>>>>, <<8101, <<8045, 921>>>>, <<8102, <<8046, 921>>>>,
     <<8103, <<8047, 921>>>>, <<8104, <<8040, 921>>>>, <<8105, <<8041, 921>>>>,
     <<8106, <<8042, 921>>>>, <<8107, <<8043, 921>>>>, <<8108, <<8044, 921>>>>,
     <<8109, <<8045, 921>>>>, <<8110, <<8046, 921>>>>, <<8111, <<8047, 921>>>>,
     <<8114, <<8122, 921>>>>, <<8115, <<913, 921>>>>, <<8116, <<902, 921>>>>,
     <<8118, <<913, 834>>>>, <<8119, <<913, 834, 921>>>>, <<8124, <<913, 921>>>>,
     <<8130, <<8138, 921>>>>, <<8131, <<919, 921>>>>, <<8132, <<905, 921>>>>,
     <<8134, <<919, 834>>>>, <<8135, <<919, 834, 921>>>>, <<8140, <<919, 921>>>>,
     <<8146, <<921, 776, 768>>>>, <<8147, <<921, 776, 769>>>>, <<8150, <<921, 834>>>>,
     <<8151, <<921, 776, 834>>>>, <<8162, <<933, 776, 768>>>>, <<8163, <<933, 776, 769>>>>,
     <<8164, <<929, 787>>>>, <<8166, <<933, 834>>>>, <<8167, <<933, 776, 834>>>>,
     <<8178, <<8186, 921>>>>, <<8179, <<937, 921>>>>, <<8180, <<911, 921>>>>,
     <<8182, <<937, 834>>>>, <<8183, <<937, 834, 921>>>>, <<8188, <<937, 921>>>>,
     <<64256, <<70, 70>>>>, <<64257, <<70, 73>>>>, <<64258, <<70, 76>>>>,
     <<64259, <<70, 70, 73>>>>, <<64260, <<70, 70, 76>>>>, <<64261, <<83, 84>>>>,
     <<64262, <<83, 84>>>>, <<64275, <<1348, 1350>>>>, <<64276, <<1348, 1333>>>>,
     <<64277, <<1348, 1339>>>>, <<64278, <<1358, 1350>>>>, <<64279, <<1348, 1341>>>>}

\* core::unicode::unicode_data::cased: the ranges <<first, last>> of the
\* characters with the property Cased
CasedTable ==
    {<<65, 90>>, <<97, 122>>, <<170, 170>>, <<181, 181>>, <<186, 186>>, <<192, 214>>,
     <<216, 246>>, <<248, 442>>, <<444, 447>>, <<452, 659>>, <<662, 696>>, <<704, 705>>,
     <<736, 740>>, <<837, 837>>, <<880, 883>>, <<886, 887>>, <<890, 893>>, <<895, 895>>,
     <<902, 902>>, <<904, 906>>, <<908, 908>>, <<910, 929>>, <<931, 1013>>, <<1015, 1153>>,
     <<1162, 1327>>, <<1329, 1366>>, <<1376, 1416>>, <<4256, 4293>>, <<4295, 4295>>, <<4301, 4301>>,
     <<4304, 4346>>, <<4348, 4351>>, <<5024, 5109>>, <<5112, 5117>>, <<7296, 7306>>, <<7312, 7354>>,
     <<7357, 7359>>, <<7424, 7615>>, <<7680, 7957>>, <<7960, 7965>>, <<7968, 8005>>, <<8008, 8013>>,
     <<8016, 8023>>, <<8025, 8025>>, <<8027, 8027>>, <<8029, 8029>>, <<8031, 8061>>, <<8064, 8116>>,
     <<8118, 8124>>, <<8126, 8126>>, <<8130, 8132>>, <<8134, 8140>>, <<8144, 8147>>, <<8150, 8155>>,
     <<8160, 8172>>, <<8178, 8180>>, <<8182, 8188>>, <<8305, 8305>>, <<8319, 8319>>, <<8336, 8348>>,
     <<8450, 8450>>, <<8455, 8455>>, <<8458, 8467>>, <<8469, 8469>>, <<8473, 8477>>, <<8484, 8484>>,
     <<8486, 8486>>, <<8488, 8488>>, <<8490, 8493>>, <<8495, 8500>>, <<8505, 8505>>, <<8508, 8511>>,
     <<8517, 8521>>, <<8526, 8526>>, <<8544, 8575>>, <<8579, 8580>>, <<9398, 9449>>, <<11264, 11492>>,
     <<11499, 11502>>, <<11506, 11507>>, <<11520, 11557>>, <<11559, 11559>>, <<11565, 11565>>, <<42560, 42605>>,
     <<42624, 42653>>, <<42786, 42887>>, <<42891, 42894>>, <<42896, 42972>>, <<42993, 42998>>, <<43000, 43002>>,
     <<43824, 43866>>, <<43868, 43881>>, <<43888, 43967>>, <<64256, 64262>>, <<64275, 64279>>, <<65313, 65338>>,
     <<65345, 65370>>, <<66560, 66639>>, <<66736, 66771>>, <<66776, 66811>>, <<66928, 66938>>, <<66940, 66954>>,
     <<66956, 66962>>, <<66964, 66965>>, <<66967, 66977>>, <<66979, 66993>>, <<66995, 67001>>, <<67003, 67004>>,
     <<67456, 67456>>, <<67459, 67461>>, <<67463, 67504>>, <<67506, 67514>>, <<68736, 68786>>, <<68800, 68850>>,
     <<68944, 68965>>, <<68976, 68997>>, <<71840, 71903>>, <<93760, 93823>>, <<93856, 93880>>, <<93883, 93907>>,
     <<119808, 119892>>, <<119894, 119964>>, <<119966, 119967>>, <<119970, 119970>>, <<119973, 119974>>, <<119977, 119980>>,
     <<119982, 119993>>, <<119995, 119995>>, <<119997, 120003>>, <<120005, 120069>>, <<120071, 120074>>, <<120077, 120084>>,
     <<120086, 120092>>, <<120094, 120121>>, <<120123, 120126>>, <<120128, 120132>>, <<120134, 120134>>, <<120138, 120144>>,
     <<120146, 120485>>, <<120488, 120512>>, <<120514, 120538>>, <<120540, 120570>>, <<120572, 120596>>, <<120598, 120628>>,
     <<120630, 120654>>, <<120656, 120686>>, <<120688, 120712>>, <<120714, 120744>>, <<120746, 120770>>, <<120772, 120779>>,
     <<122624, 122633>>, <<122635, 122654>>, <<122661, 122666>>, <<122928, 122989>>, <<125184, 125251>>, <<127280, 127305>>,
     <<127312, 127337>>, <<127344, 127369>>}

\* core::unicode::unicode_data::case_ignorable: the ranges of the characters
\* with the property Case_Ignorable
CaseIgnorableTable ==
    {<<39, 39>>, <<46, 46>>, <<58, 58>>, <<94, 94>>, <<96, 96>>, <<168, 168>>,
     <<173, 173>>, <<175, 175>>, <<180, 180>>, <<183, 184>>, <<688, 879>>, <<884, 885>>,
     <<890, 890>>, <<900, 901>>, <<903, 903>>, <<1155, 1161>>, <<1369, 1369>>, <<1375, 1375>>,
     <<1425, 1469>>, <<1471, 1471>>, <<1473, 1474>>, <<1476, 1477>>, <<1479, 1479>>, <<1524, 1524>>,
     <<1536, 1541>>, <<1552, 1562>>, <<1564, 1564>>, <<1600, 1600>>, <<1611, 1631>>, <<1648, 1648>>,
     <<1750, 1757>>, <<1759, 1768>>, <<1770, 1773>>, <<1807, 1807>>, <<1809, 1809>>, <<1840, 1866>>,
     <<1958, 1968>>, <<2027, 2037>>, <<2042, 2042>>, <<2045, 2045>>, <<2070, 2093>>, <<2137, 2139>>,
     <<2184, 2184>>, <<2192, 2193>>, <<2199, 2207>>, <<2249, 2306>>, <<2362, 2362>>, <<2364, 2364>>,
     <<2369, 2376>>, <<2381, 2381>>, <<2385, 2391>>, <<2402, 2403>>, <<2417, 2417>>, <<2433, 2433>>,
     <<2492, 2492>>, <<2497, 2500>>, <<2509, 2509>>, <<2530, 2531>>, <<2558, 2558>>, <<2561, 2562>>,
     <<2620, 2620>>, <<2625, 2626>>, <<2631, 2632>>, <<2635, 2637>>, <<2641, 2641>>, <<2672, 2673>>,
     <<2677, 2677>>, <<2689, 2690>>, <<2748, 2748>>, <<2753, 2757>>, <<2759, 2760>>, <<2765, 2765>>,
     <<2786, 2787>>, <<2810, 2815>>, <<2817, 2817>>, <<2876, 2876>>, <<2879, 2879>>, <<2881, 2884>>,
     <<2893, 2893>>, <<2901, 2902>>, <<2914, 2915>>, <<2946, 2946>>, <<3008, 3008>>, <<3021, 3021>>,
     <<3072, 3072>>, <<3076, 3076>>, <<3132, 3132>>, <<3134, 3136>>, <<3142, 3144>>, <<3146, 3149>>,
     <<3157, 3158>>, <<3170, 3171>>, <<3201, 3201>>, <<3260, 3260>>, <<3263, 3263>>, <<3270, 3270>>,
     <<3276, 3277>>, <<3298, 3299>>, <<3328, 3329>>, <<3387, 3388>>, <<3393, 3396>>, <<3405, 3405>>,
     <<3426, 3427>>, <<3457, 3457>>, <<3530, 3530>>, <<3538, 3540>>, <<3542, 3542>>, <<3633, 3633>>,
     <<3636, 3642>>, <<3654, 3662>>, <<3761, 3761>>, <<3764, 3772>>, <<3782, 3782>>, <<3784, 3790>>,
     <<3864, 3865>>, <<3893, 3893>>, <<3895, 3895>>, <<3897, 3897>>, <<3953, 3966>>, <<3968, 3972>>,
     <<3974, 3975>>, <<3981, 3991>>, <<3993, 4028>>, <<4038, 4038>>, <<4141, 4144>>, <<4146, 4151>>,
     <<4153, 4154>>, <<4157, 4158>>, <<4184, 4185>>, <<4190, 4192>>, <<4209, 4212>>, <<4226, 4226>>,
     <<4229, 4230>>, <<4237, 4237>>, <<4253, 4253>>, <<4348, 4348>>, <<4957, 4959>>, <<5906, 5908>>,
     <<5938, 5939>>, <<5970, 5971>>, <<6002, 6003>>, <<6068, 6069>>, <<6071, 6077>>, <<6086, 6086>>,
     <<6089, 6099>>, <<6103, 6103>>, <<6109, 6109>>, <<6155, 6159>>, <<6211, 6211>>, <<6277, 6278>>,
     <<6313, 6313>>, <<6432, 6434>>, <<6439, 6440>>, <<6450, 6450>>, <<6457, 6459>>, <<6679, 6680>>,
     <<6683, 6683>>, <<6742, 6742>>, <<6744, 6750>>, <<6752, 6752>>, <<6754, 6754>>, <<6757, 6764>>,
     <<6771, 6780>>, <<6783, 6783>>, <<6823, 6823>>, <<6832, 6877>>, <<6880, 6891>>, <<6912, 6915>>,
     <<6964, 6964>>, <<6966, 6970>>, <<6972, 6972>>, <<6978, 6978>>, <<7019, 7027>>, <<7040, 7041>>,
     <<7074, 7077>>, <<7080, 7081>>, <<7083, 7085>>, <<7142, 7142>>, <<7144, 7145>>, <<7149, 7149>>,
     <<7151, 7153>>, <<7212, 7219>>, <<7222, 7223>>, <<7288, 7293>>, <<7376, 7378>>, <<7380, 7392>>,
     <<7394, 7400>>, <<7405, 7405>>, <<7412, 7412>>, <<7416, 7417>>, <<7468, 7530>>, <<7544, 7544>>,
     <<7579, 7679>>, <<8125, 8125>>, <<8127, 8129>>, <<8141, 8143>>, <<8157, 8159>>, <<8173, 8175>>,
     <<8189, 8190>>, <<8203, 8207>>, <<8216, 8217>>, <<8228, 8228>>, <<8231, 8231>>, <<8234, 8238>>,
     <<8288, 8292>>, <<8294, 8303>>, <<8305, 8305>>, <<8319, 8319>>, <<8336, 8348>>, <<8400, 8432>>,
     <<11388, 11389>>, <<11503, 11505>>, <<11631, 11631>>, <<11647, 11647>>, <<11744, 11775>>, <<11823, 11823>>,
     <<12293, 12293>>, <<12330, 12333>>, <<12337, 12341>>, <<12347, 12347>>, <<12441, 12446>>, <<12540, 12542>>,
     <<40981, 40981>>, <<42232, 42237>>, <<42508, 42508>>, <<42607, 42610>>, <<42612, 42621>>, <<42623, 42623>>,
     <<42652, 42655>>, <<42736, 42737>>, <<42752, 42785>>, <<42864, 42864>>, <<42888, 42890>>, <<42993, 42996>>,
     <<43000, 43001>>, <<43010, 43010>>, <<43014, 43014>>, <<43019, 43019>>, <<43045, 43046>>, <<43052, 43052>>,
     <<43204, 43205>>, <<43232, 43249>>, <<43263, 43263>>, <<43302, 43309>>, <<43335, 43345>>, <<43392, 43394>>,
     <<43443, 43443>>, <<43446, 43449>>, <<43452, 43453>>, <<43471, 43471>>, <<43493, 43494>>, <<43561, 43566>>,
     <<43569, 43570>>, <<43573, 43574>>, <<43587, 43587>>, <<43596, 43596>>, <<43632, 43632>>, <<43644, 43644>>,
     <<43696, 43696>>, <<43698, 43700>>, <<43703, 43704>>, <<43710, 43711>>, <<43713, 43713>>, <<43741, 43741>>,
     <<43756, 43757>>, <<43763, 43764>>, <<43766, 43766>>, <<43867, 43871>>, <<43881, 43883>>, <<44005, 44005>>,
     <<44008, 44008>>, <<44013, 44013>>, <<64286, 64286>>, <<64434, 64450>>, <<65024, 65039>>, <<65043, 65043>>,
     <<65056, 65071>>, <<65106, 65106>>, <<65109, 65109>>, <<65279, 65279>>, <<65287, 65287>>, <<65294, 65294>>,
     <<65306, 65306>>, <<65342, 65342>>, <<65344, 65344>>, <<65392, 65392>>, <<65438, 65439>>, <<65507, 65507>>,
     <<65529, 65531>>, <<66045, 66045>>, <<66272, 66272>>, <<66422, 66426>>, <<67456, 67461>>, <<67463, 67504>>,
     <<67506, 67514>>, <<68097, 68099>>, <<68101, 68102>>, <<68108, 68111>>, <<68152, 68154>>, <<68159, 68159>>,
     <<68325, 68326>>, <<68900, 68903>>, <<68942, 68942>>, <<68969, 68973>>, <<68975, 68975>>, <<69291, 69292>>,
     <<69317, 69317>>, <<69370, 69375>>, <<69446, 69456>>, <<69506, 69509>>, <<69633, 69633>>, <<69688, 69702>>,
     <<69744, 69744>>, <<69747, 69748>>, <<69759, 69761>>, <<69811, 69814>>, <<69817, 69818>>, <<69821, 69821>>,
     <<69826, 69826>>, <<69837, 69837>>, <<69888, 69890>>, <<69927, 69931>>, <<69933, 69940>>, <<70003, 70003>>,
     <<70016, 70017>>, <<70070, 70078>>, <<70089, 70092>>, <<70095, 70095>>, <<70191, 70193>>, <<70196, 70196>>,
     <<70198, 70199>>, <<70206, 70206>>, <<70209, 70209>>, <<70367, 70367>>, <<70371, 70378>>, <<70400, 70401>>,
     <<70459, 70460>>, <<70464, 70464>>, <<70502, 70508>>, <<70512, 70516>>, <<70587, 70592>>, <<70606, 70606>>,
     <<70608, 70608>>, <<70610, 70610>>, <<70625, 70626>>, <<70712, 70719>>, <<70722, 70724>>, <<70726, 70726>>,
     <<70750, 70750>>, <<70835, 70840>>, <<70842, 70842>>, <<70847, 70848>>, <<70850, 70851>>, <<71090, 71093>>,
     <<71100, 71101>>, <<71103, 71104>>, <<71132, 71133>>, <<71219, 71226>>, <<71229, 71229>>, <<71231, 71232>>,
     <<71339, 71339>>, <<71341, 71341>>, <<71344, 71349>>, <<71351, 71351>>, <<71453, 71453>>, <<71455, 71455>>,
     <<71458, 71461>>, <<71463, 71467>>, <<71727, 71735>>, <<71737, 71738>>, <<71995, 71996>>, <<71998, 71998>>,
     <<72003, 72003>>, <<72148, 72151>>, <<72154, 72155>>, <<72160, 72160>>, <<72193, 72202>>, <<72243, 72248>>,
     <<72251, 72254>>, <<72263, 72263>>, <<72273, 72278>>, <<72281, 72283>>, <<72330, 72342>>, <<72344, 72345>>,
     <<72544, 72544>>, <<72546, 72548>>, <<72550, 72550>>, <<72752, 72758>>, <<72760, 72765>>, <<72767, 72767>>,
     <<72850, 72871>>, <<72874, 72880>>, <<72882, 72883>>, <<72885, 72886>>, <<73009, 73014>>, <<73018, 73018>>,
     <<73020, 73021>>, <<73023, 73029>>, <<73031, 73031>>, <<73104, 73105>>, <<73109, 73109>>, <<73111, 73111>>,
     <<73177, 73177>>, <<73459, 73460>>, <<73472, 73473>>, <<73526, 73530>>, <<73536, 73536>>, <<73538, 73538>>,
     <<73562, 73562>>, <<78896, 78912>>, <<78919, 78933>>, <<90398, 90409>>, <<90413, 90415>>, <<92912, 92916>>,
     <<92976, 92982>>, <<92992, 92995>>, <<93504, 93506>>, <<93547, 93548>>, <<94031, 94031>>, <<94095, 94111>>,
     <<94176, 94177>>, <<94179, 94180>>, <<94194, 94195>>, <<110576, 110579>>, <<110581, 110587>>, <<110589, 110590>>,
     <<113821, 113822>>, <<113824, 113827>>, <<118528, 118573>>, <<118576, 118598>>, <<119143, 119145>>, <<119155, 119170>>,
     <<119173, 119179>>, <<119210, 119213>>, <<119362, 119364>>, <<121344, 121398>>, <<121403, 121452>>, <<121461, 121461>>,
     <<121476, 121476>>, <<121499, 121503>>, <<121505, 121519>>, <<122880, 122886>>, <<122888, 122904>>, <<122907, 122913>>,
     <<122915, 122916>>, <<122918, 122922>>, <<122928, 122989>>, <<123023, 123023>>, <<123184, 123197>>, <<123566, 123566>>,
     <<123628, 123631>>, <<124139, 124143>>, <<124398, 124399>>, <<124643, 124643>>, <<124646, 124646>>, <<124654, 124655>>,
     <<124661, 124661>>, <<124671, 124671>>, <<125136, 125142>>, <<125252, 125259>>, <<127995, 127999>>, <<917505, 917505>>,
     <<917536, 917631>>, <<917760, 917999>>}

\* bsearch_case_table: the image of c under a table of single mappings, c
\* itself when the table has no entry for it
CaseTableLookup(table, c) ==
    LET Image(hit) == IF hit = {} THEN c ELSE c + (CHOOSE r \in hit : TRUE)[4]
    IN  Image({r \in table : c >= r[1] /\ c <= r[2] /\ (c - r[1]) % r[3] = 0})

\* the characters a table of multiple mappings gives for c, <<>> when none
CaseTableMulti(table, c) ==
    LET Image(hit) == IF hit = {} THEN <<>> ELSE (CHOOSE r \in hit : TRUE)[2]
    IN  Image({r \in table : r[1] = c})

\* char::to_uppercase (conversions::to_upper): the ASCII letters directly, any
\* other character by the tables; a character may map to several
to_uppercase_char(c) ==
    IF c < 128 THEN (IF c >= 97 /\ c <= 122 THEN <<c - 32>> ELSE <<c>>)
    ELSE IF CaseTableMulti(UPPERCASE_TABLE_MULTI, c) # <<>>
    THEN CaseTableMulti(UPPERCASE_TABLE_MULTI, c)
    ELSE <<CaseTableLookup(UPPERCASE_TABLE, c)>>

\* char::to_lowercase (conversions::to_lower); U+0130 is the one entry of
\* LOWERCASE_TABLE_MULTI, the one character whose lowercase is two characters
to_lowercase_char(c) ==
    IF c < 128 THEN (IF c >= 65 /\ c <= 90 THEN <<c + 32>> ELSE <<c>>)
    ELSE IF c = 304 THEN <<105, 775>>
    ELSE <<CaseTableLookup(LOWERCASE_TABLE, c)>>

\* core::unicode::Cased and core::unicode::Case_Ignorable
Cased(c) == \E r \in CasedTable : c >= r[1] /\ c <= r[2]

Case_Ignorable(c) == \E r \in CaseIgnorableTable : c >= r[1] /\ c <= r[2]

\* case_ignorable_then_cased: the first of the characters that is not
\* Case_Ignorable exists and is Cased
case_ignorable_then_cased(iter) ==
    \E j \in 1..Len(iter) :
        /\ \A m \in 1..(j - 1) : Case_Ignorable(iter[m])
        /\ ~Case_Ignorable(iter[j])
        /\ Cased(iter[j])

\* map_uppercase_sigma: the lowercase of the capital sigma at position i, the
\* final form when a cased letter comes before it and none after it
map_uppercase_sigma(from, i) ==
    LET Rev(s) == [k \in 1..Len(s) |-> s[Len(s) + 1 - k]]
    IN  IF /\ case_ignorable_then_cased(Rev(SubSeq(from, 1, i - 1)))
           /\ ~case_ignorable_then_cased(SubSeq(from, i + 1, Len(from)))
        THEN <<962>>
        ELSE <<963>>

\* str::to_uppercase
to_uppercase(text) == Concat([i \in 1..Len(text) |-> to_uppercase_char(text[i])])

\* str::to_lowercase: character by character, but for U+03A3, the capital
\* sigma, whose lowercase depends on its neighbours
to_lowercase(text) ==
    Concat([i \in 1..Len(text) |->
        IF text[i] = 931 THEN map_uppercase_sigma(text, i)
        ELSE to_lowercase_char(text[i])])

\* a reversal of the bytes of the text, each byte that is no character alone
\* read as U+FFFD
bytes_rev(text) ==
    LET Lossy(b) == [i \in 1..Len(b) |-> IF b[Len(b) + 1 - i] < 128 THEN b[Len(b) + 1 - i] ELSE 65533]
    IN  Lossy(as_bytes(text))

\* text.chars().rev().collect()
chars_rev(text) == [i \in 1..Len(text) |-> text[Len(text) + 1 - i]]

\* char::is_whitespace: the Unicode White_Space property
is_whitespace(c) ==
    \/ c >= 9 /\ c <= 13
    \/ c \in {32, 133, 160, 5760, 8232, 8233, 8239, 8287, 12288}
    \/ c >= 8192 /\ c <= 8202

\* text.split(' ').count(): the pieces between single spaces, empty ones
\* included
split_space_count(text) ==
    Cardinality({i \in 1..Len(text) : text[i] = 32}) + 1

\* text.split_whitespace().count(): the maximal runs of non-whitespace
split_whitespace_count(text) ==
    Cardinality({i \in 1..Len(text) :
        ~is_whitespace(text[i]) /\ (i = 1 \/ is_whitespace(text[i - 1]))})

\* the arms of each execute_ function's match on what parse_text_arg returned
uppercase_match(p) ==
    IF p.ok THEN str_success_result(to_uppercase(p.text))
    ELSE str_error_result(p.msg)

execute_uppercase(arguments) == uppercase_match(str_parse_text_arg(arguments))

lowercase_match(p) ==
    IF p.ok THEN str_success_result(to_lowercase(p.text))
    ELSE str_error_result(p.msg)

execute_lowercase(arguments) == lowercase_match(str_parse_text_arg(arguments))

reverse_match(p) ==
    IF p.ok THEN str_success_result(chars_rev(p.text))
    ELSE str_error_result(p.msg)

execute_reverse(arguments) == reverse_match(str_parse_text_arg(arguments))

word_count_match(p) ==
    LET WordsSuffix ==
            Str(<<" ", "w", "o", "r", "d", "s">>)
    IN  IF p.ok THEN str_success_result(NatToString(split_whitespace_count(p.text)) \o WordsSuffix)
        ELSE str_error_result(p.msg)

execute_word_count(arguments) == word_count_match(str_parse_text_arg(arguments))

\* a dispatcher that also answers to the calculator's add
str_call_tool_claiming_add(req) ==
    IF req.name = Str(<<"u", "p", "p", "e", "r", "c", "a", "s", "e">>)
        \/ req.name = Str(<<"a", "d", "d">>)
    THEN Some(execute_uppercase(req.arguments))
    ELSE IF req.name = Str(<<"l", "o", "w", "e", "r", "c", "a", "s", "e">>)
    THEN Some(execute_lowercase(req.arguments))
    ELSE IF req.name = Str(<<"r", "e", "v", "e", "r", "s", "e">>)
    THEN Some(execute_reverse(req.arguments))
    ELSE IF req.name = Str(<<"w", "o", "r", "d", "_", "c", "o", "u", "n", "t">>)
    THEN Some(execute_word_count(req.arguments))
    ELSE None

str_call_tool(req) ==
    IF req.name = Str(<<"u", "p", "p", "e", "r", "c", "a", "s", "e">>)
    THEN Some(execute_uppercase(req.arguments))
    ELSE IF req.name = Str(<<"l", "o", "w", "e", "r", "c", "a", "s", "e">>)
    THEN Some(execute_lowercase(req.arguments))
    ELSE IF req.name = Str(<<"r", "e", "v", "e", "r", "s", "e">>)
    THEN Some(execute_reverse(req.arguments))
    ELSE IF req.name = Str(<<"w", "o", "r", "d", "_", "c", "o", "u", "n", "t">>)
    THEN Some(execute_word_count(req.arguments))
    ELSE None

str_tools ==
    <<[name |-> Str(<<"u", "p", "p", "e", "r", "c", "a", "s", "e">>),
       input_schema |->
            Str(<<"{">>) \o <<10>> \o Repeat(32, 24) \o Str(<<"\"", "t", "y", "p",
              "e", "\"", ":", " ", "\"", "o", "b", "j", "e", "c", "t", "\"",
              ",">>) \o <<10>> \o Repeat(32, 24) \o Str(<<"\"", "p", "r", "o", "p",
              "e", "r", "t", "i", "e", "s", "\"", ":", " ",
              "{">>) \o <<10>> \o Repeat(32, 28) \o Str(<<"\"", "t", "e", "x", "t",
              "\"", ":", " ", "{", "\"", "t", "y", "p", "e", "\"", ":", " ", "\"",
              "s", "t", "r", "i", "n", "g", "\"", ",", " ", "\"", "d", "e", "s", "c",
              "r", "i", "p", "t", "i", "o", "n", "\"", ":", " ", "\"", "T", "e", "x",
              "t", " ", "t", "o", " ", "c", "o", "n", "v", "e", "r", "t", " ", "t",
              "o", " ", "u", "p", "p", "e", "r", "c", "a", "s", "e", "\"",
              "}">>) \o <<10>> \o Repeat(32, 24) \o Str(<<"}",
              ",">>) \o <<10>> \o Repeat(32, 24) \o Str(<<"\"", "r", "e", "q", "u",
              "i", "r", "e", "d", "\"", ":", " ", "[", "\"", "t", "e", "x", "t",
              "\"", "]">>) \o <<10>> \o Repeat(32, 20) \o Str(<<"}">>),
       options |-> ToolOptions(
            Str(<<"C", "o", "n", "v", "e", "r", "t", " ", "t", "e", "x", "t",
              " ", "t", "o", " ", "u", "p", "p", "e", "r", "c", "a", "s",
              "e">>),
            Str(<<"U", "p", "p", "e", "r", "c", "a", "s", "e">>))],
      [name |-> Str(<<"l", "o", "w", "e", "r", "c", "a", "s", "e">>),
       input_schema |->
            Str(<<"{">>) \o <<10>> \o Repeat(32, 24) \o Str(<<"\"", "t", "y", "p",
              "e", "\"", ":", " ", "\"", "o", "b", "j", "e", "c", "t", "\"",
              ",">>) \o <<10>> \o Repeat(32, 24) \o Str(<<"\"", "p", "r", "o", "p",
              "e", "r", "t", "i", "e", "s", "\"", ":", " ",
              "{">>) \o <<10>> \o Repeat(32, 28) \o Str(<<"\"", "t", "e", "x", "t",
              "\"", ":", " ", "{", "\"", "t", "y", "p", "e", "\"", ":", " ", "\"",
              "s", "t", "r", "i", "n", "g", "\"", ",", " ", "\"", "d", "e", "s", "c",
              "r", "i", "p", "t", "i", "o", "n", "\"", ":", " ", "\"", "T", "e", "x",
              "t", " ", "t", "o", " ", "c", "o", "n", "v", "e", "r", "t", " ", "t",
              "o", " ", "l", "o", "w", "e", "r", "c", "a", "s", "e", "\"",
              "}">>) \o <<10>> \o Repeat(32, 24) \o Str(<<"}",
              ",">>) \o <<10>> \o Repeat(32, 24) \o Str(<<"\"", "r", "e", "q", "u",
              "i", "r", "e", "d", "\"", ":", " ", "[", "\"", "t", "e", "x", "t",
              "\"", "]">>) \o <<10>> \o Repeat(32, 20) \o Str(<<"}">>),
       options |-> ToolOptions(
            Str(<<"C", "o", "n", "v", "e", "r", "t", " ", "t", "e", "x", "t",
              " ", "t", "o", " ", "l", "o", "w", "e", "r", "c", "a", "s",
              "e">>),
            Str(<<"L", "o", "w", "e", "r", "c", "a", "s", "e">>))],
      [name |-> Str(<<"r", "e", "v", "e", "r", "s", "e">>),
       input_schema |->
            Str(<<"{">>) \o <<10>> \o Repeat(32, 24) \o Str(<<"\"", "t", "y", "p",
              "e", "\"", ":", " ", "\"", "o", "b", "j", "e", "c", "t", "\"",
              ",">>) \o <<10>> \o Repeat(32, 24) \o Str(<<"\"", "p", "r", "o", "p",
              "e", "r", "t", "i", "e", "s", "\"", ":", " ",
              "{">>) \o <<10>> \o Repeat(32, 28) \o Str(<<"\"", "t", "e", "x", "t",
              "\"", ":", " ", "{", "\"", "t", "y", "p", "e", "\"", ":", " ", "\"",
              "s", "t", "r", "i", "n", "g", "\"", ",", " ", "\"", "d", "e", "s", "c",
              "r", "i", "p", "t", "i", "o", "n", "\"", ":", " ", "\"", "T", "e", "x",
              "t", " ", "t", "o", " ", "r", "e", "v", "e", "r", "s", "e", "\"",
              "}">>) \o <<10>> \o Repeat(32, 24) \o Str(<<"}",
              ",">>) \o <<10>> \o Repeat(32, 24) \o Str(<<"\"", "r", "e", "q", "u",
              "i", "r", "e", "d", "\"", ":", " ", "[", "\"", "t", "e", "x", "t",
              "\"", "]">>) \o <<10>> \o Repeat(32, 20) \o Str(<<"}">>),
       options |-> ToolOptions(
            Str(<<"R", "e", "v", "e", "r", "s", "e", " ", "a", " ", "s", "t",
              "r", "i", "n", "g">>),
            Str(<<"R", "e", "v", "e", "r", "s", "e">>))],
      [name |-> Str(<<"w", "o", "r", "d", "_", "c", "o", "u", "n", "t">>),
       input_schema |->
            Str(<<"{">>) \o <<10>> \o Repeat(32, 24) \o Str(<<"\"", "t", "y", "p",
              "e", "\"", ":", " ", "\"", "o", "b", "j", "e", "c", "t", "\"",
              ",">>) \o <<10>> \o Repeat(32, 24) \o Str(<<"\"", "p", "r", "o", "p",
              "e", "r", "t", "i", "e", "s", "\"", ":", " ",
              "{">>) \o <<10>> \o Repeat(32, 28) \o Str(<<"\"", "t", "e", "x", "t",
              "\"", ":", " ", "{", "\"", "t", "y", "p", "e", "\"", ":", " ", "\"",
              "s", "t", "r", "i", "n", "g", "\"", ",", " ", "\"", "d", "e", "s", "c",
              "r", "i", "p", "t", "i", "o", "n", "\"", ":", " ", "\"", "T", "e", "x",
              "t", " ", "t", "o", " ", "c", "o", "u", "n", "t", " ", "w", "o", "r",
              "d", "s", " ", "i", "n", "\"", "}">>) \o <<10>> \o Repeat(32,
              24) \o Str(<<"}", ",">>) \o <<10>> \o Repeat(32, 24) \o Str(<<"\"",
              "r", "e", "q", "u", "i", "r", "e", "d", "\"", ":", " ", "[", "\"", "t",
              "e", "x", "t", "\"", "]">>) \o <<10>> \o Repeat(32, 20) \o Str(<<"}">>),
       options |-> ToolOptions(
            Str(<<"C", "o", "u", "n", "t", " ", "w", "o", "r", "d", "s", " ",
              "i", "n", " ", "t", "e", "x", "t">>),
            Str(<<"W", "o", "r", "d", " ", "C", "o", "u", "n", "t">>))]>>

\* a listing that registers every tool twice
str_list_tools_twice(req) ==
    [tools |-> str_tools \o str_tools, next_cursor |-> None, meta |-> None]

str_list_tools(req) == [tools |-> str_tools, next_cursor |-> None, meta |-> None]

(***************************************************************************)
(* system-info (components/system-info/src/lib.rs)                         *)
(***************************************************************************)
sys_success_result(result) ==
    [content |-> <<[block |-> "Text", text |-> result, options |-> None]>>,
     is_error |-> None,
     meta |-> None,
     structured_content |-> None]

sys_error_result(message) ==
    [content |-> <<[block |-> "Text", text |-> message, options |-> None]>>,
     is_error |-> Some(TRUE),
     meta |-> None,
     structured_content |-> None]

\* Result<String, String>: [ok, text] or [ok, msg]
sys_parse_text_arg(arguments) ==
    LET MissingArguments ==
            Str(<<"M", "i", "s", "s", "i", "n", "g", " ", "a", "r", "g", "u", "m",
              "e", "n", "t", "s">>)
        InvalidJsonPrefix ==
            Str(<<"I", "n", "v", "a", "l", "i", "d", " ", "J", "S", "O", "N", " ",
              "a", "r", "g", "u", "m", "e", "n", "t", "s", ":", " ">>)
        MissingOrInvalidText ==
            Str(<<"M", "i", "s", "s", "i", "n", "g", " ", "o", "r", " ", "i", "n",
              "v", "a", "l", "i", "d", " ", "p", "a", "r", "a", "m", "e", "t", "e",
              "r", " ", "'", "t", "e", "x", "t", "'">>)
        String(v) == IF IsSome(v) THEN as_str(Unwrap(v)) ELSE None
        Text(text) ==
            IF ~IsSome(text) THEN [ok |-> FALSE, msg |-> MissingOrInvalidText]
            ELSE [ok |-> TRUE, text |-> Unwrap(text)]
        Field(json) ==
            IF ~json.ok
            THEN [ok |-> FALSE, msg |-> InvalidJsonPrefix \o json.msg]
            ELSE Text(String(get(json.v, Str(<<"t", "e", "x", "t">>))))
    IN  IF ~IsSome(arguments) THEN [ok |-> FALSE, msg |-> MissingArguments]
        ELSE Field(from_str(Unwrap(arguments)))

\* the URL-safe alphabet A-Z a-z 0-9 - _
Base64SymbolUrlSafe(v) ==
    IF v < 26 THEN 65 + v
    ELSE IF v < 52 THEN 97 + (v - 26)
    ELSE IF v < 62 THEN 48 + (v - 52)
    ELSE IF v = 62 THEN 45
    ELSE 95

\* base64::engine::general_purpose::STANDARD: the alphabet A-Z a-z 0-9 + /
Base64Symbol(v) ==
    IF v < 26 THEN 65 + v
    ELSE IF v < 52 THEN 97 + (v - 26)
    ELSE IF v < 62 THEN 48 + (v - 52)
    ELSE IF v = 62 THEN 43
    ELSE 47

\* the decode table: the six bits of a symbol, -1 for a byte outside the alphabet
Base64Value(c) ==
    IF c >= 65 /\ c <= 90 THEN c - 65
    ELSE IF c >= 97 /\ c <= 122 THEN c - 97 + 26
    ELSE IF c >= 48 /\ c <= 57 THEN c - 48 + 52
    ELSE IF c = 43 THEN 62
    ELSE IF c = 47 THEN 63
    ELSE 0 - 1

\* the padding byte '='
PAD_BYTE == 61

\* STANDARD_NO_PAD.encode(bytes): the same symbols without the '=' padding
base64_encode_no_pad(bytes) ==
    LET n == Len(bytes)
        byte(i) == IF i <= n THEN bytes[i] ELSE 0
        quad(g) ==
            LET v == byte(3 * g + 1) * 65536 + byte(3 * g + 2) * 256 + byte(3 * g + 3)
                have == Min(3, n - 3 * g)
            IN  SubSeq(<<Base64Symbol(v \div 262144),
                         Base64Symbol((v \div 4096) % 64),
                         Base64Symbol((v \div 64) % 64),
                         Base64Symbol(v % 64)>>, 1, have + 1)
    IN  Concat([g \in 1..((n + 2) \div 3) |-> quad(g - 1)])

\* STANDARD.encode(bytes): three bytes to four symbols, padded with '='
base64_encode(bytes) ==
    LET n == Len(bytes)
        byte(i) == IF i <= n THEN bytes[i] ELSE 0
        quad(g) ==
            LET v == byte(3 * g + 1) * 65536 + byte(3 * g + 2) * 256 + byte(3 * g + 3)
                have == Min(3, n - 3 * g)
            IN  <<Base64Symbol(v \div 262144),
                  Base64Symbol((v \div 4096) % 64),
                  IF have >= 2 THEN Base64Symbol((v \div 64) % 64) ELSE PAD_BYTE,
                  IF have >= 3 THEN Base64Symbol(v % 64) ELSE PAD_BYTE>>
    IN  Concat([g \in 1..((n + 2) \div 3) |-> quad(g - 1)])

\* base64::DecodeError, as its Display prints it
InvalidByte(offset, byte) ==
    Str(<<"I", "n", "v", "a", "l", "i", "d", " ", "s", "y", "m", "b", "o", "l", " ">>)
        \o NatToString(byte)
        \o Str(<<",", " ", "o", "f", "f", "s", "e", "t", " ">>)
        \o NatToString(offset) \o Str(<<".">>)

InvalidLength(len) ==
    Str(<<"I", "n", "v", "a", "l", "i", "d", " ", "i", "n", "p", "u", "t", " ",
          "l", "e", "n", "g", "t", "h", ":", " ">>) \o NatToString(len)

InvalidLastSymbol(offset, byte) ==
    Str(<<"I", "n", "v", "a", "l", "i", "d", " ", "l", "a", "s", "t", " ",
          "s", "y", "m", "b", "o", "l", " ">>)
        \o NatToString(byte)
        \o Str(<<",", " ", "o", "f", "f", "s", "e", "t", " ">>)
        \o NatToString(offset) \o Str(<<".">>)

InvalidPadding ==
    Str(<<"I", "n", "v", "a", "l", "i", "d", " ", "p", "a", "d", "d", "i", "n", "g">>)

\* the bytes that a run of six-bit values holds: floor(6 * Len(m) / 8) of them
MorselBytes(m) ==
    LET val(i) == IF i <= Len(m) THEN m[i] ELSE 0
        byte(j) ==
            LET g == j \div 3
                v == val(4 * g + 1) * 262144 + val(4 * g + 2) * 4096
                        + val(4 * g + 3) * 64 + val(4 * g + 4)
            IN  (v \div Pow(2, 16 - 8 * (j % 3))) % 256
    IN  [j \in 1..((Len(m) * 6) \div 8) |-> byte(j - 1)]

\* decode_suffix: the last quad, which alone may hold padding.  input_index is
\* the offset of its first byte in the input.  Gives [ok, morsels] or [ok, msg].
decode_suffix(input, input_index) ==
    LET n == Len(input) - input_index
        at(i) == input[input_index + i + 1]
        pads == {i \in 0..(n - 1) : at(i) = PAD_BYTE}
        first_pad == IF pads = {} THEN n ELSE CHOOSE i \in pads : \A j \in pads : i <= j
        \* the first byte at which the loop returns an error, if any
        bad(i) ==
            \/ at(i) = PAD_BYTE /\ i < 2
            \/ at(i) # PAD_BYTE /\ (first_pad < i \/ Base64Value(at(i)) < 0)
        bads == {i \in 0..(n - 1) : bad(i)}
        stop == CHOOSE i \in bads : \A j \in bads : i <= j
        \* when the loop returns no error, the symbols are those before the padding
        morsels_in_leftover == first_pad
        morsels == [i \in 1..first_pad |-> Base64Value(at(i - 1))]
        padding_bytes_count == n - first_pad
        leftover == IF first_pad = 0 THEN 0 ELSE
                    (morsels[first_pad] * Pow(64, 4 - first_pad))
                        % Pow(2, 24 - 8 * ((first_pad * 6) \div 8))
    IN  IF bads # {}
        THEN IF at(stop) # PAD_BYTE /\ first_pad < stop
             THEN [ok |-> FALSE, msg |-> InvalidByte(input_index + first_pad, PAD_BYTE)]
             ELSE [ok |-> FALSE, msg |-> InvalidByte(input_index + stop, at(stop))]
        ELSE IF Len(input) > 0 /\ morsels_in_leftover < 2
        THEN [ok |-> FALSE, msg |-> InvalidLength(input_index + morsels_in_leftover)]
        ELSE IF (padding_bytes_count + first_pad) % 4 # 0
        THEN [ok |-> FALSE, msg |-> InvalidPadding]
        ELSE IF leftover # 0
        THEN [ok |-> FALSE,
              msg |-> InvalidLastSymbol(input_index + first_pad - 1, at(first_pad - 1))]
        ELSE [ok |-> TRUE, morsels |-> morsels]

\* STANDARD.decode(input): [ok, bytes] or [ok, msg]
base64_decode(input) ==
    LET n == Len(input)
        rem == n % 4
        quads_len == Max(0, n - rem - (IF rem = 0 THEN 4 ELSE 0))
        invalid == {i \in 1..quads_len : Base64Value(input[i]) < 0}
        first == CHOOSE i \in invalid : \A j \in invalid : i <= j
        suffix == decode_suffix(input, quads_len)
    IN  IF rem = 1 /\ input[n] # PAD_BYTE /\ Base64Value(input[n]) < 0
        THEN [ok |-> FALSE, msg |-> InvalidByte(n - 1, input[n])]
        ELSE IF invalid # {}
        THEN [ok |-> FALSE, msg |-> InvalidByte(first - 1, input[first])]
        ELSE IF ~suffix.ok THEN suffix
        ELSE [ok |-> TRUE,
              bytes |-> MorselBytes([i \in 1..quads_len |-> Base64Value(input[i])]
                                        \o suffix.morsels)]

\* an encoder that takes absent arguments for the empty text
base64_encode_of_default(arguments) ==
    LET Result(p) ==
            IF p.ok THEN sys_success_result(base64_encode(as_bytes(p.text)))
            ELSE sys_error_result(p.msg)
    IN  IF ~IsSome(arguments) THEN sys_success_result(base64_encode(<<>>))
        ELSE Result(sys_parse_text_arg(arguments))

\* the arms of execute_base64_encode's match on what parse_text_arg returned
base64_encode_match(p) ==
    IF p.ok THEN sys_success_result(base64_encode(as_bytes(p.text)))
    ELSE sys_error_result(p.msg)

execute_base64_encode(arguments) == base64_encode_match(sys_parse_text_arg(arguments))

\* a decoder that reads bytes that are no UTF-8 text as the replacement
\* character, as String::from_utf8_lossy does
base64_decode_lossy(arguments) ==
    LET InvalidBase64Prefix ==
            Str(<<"I", "n", "v", "a", "l", "i", "d", " ", "b", "a", "s", "e", "6",
              "4", ":", " ">>)
        Text(t) ==
            IF IsSome(t) THEN sys_success_result(Unwrap(t))
            ELSE sys_success_result(<<65533>>)
        Decoded(d) ==
            IF ~d.ok THEN sys_error_result(InvalidBase64Prefix \o d.msg)
            ELSE Text(from_utf8(d.bytes))
        Result(p) ==
            IF ~p.ok THEN sys_error_result(p.msg)
            ELSE Decoded(base64_decode(as_bytes(p.text)))
    IN  Result(sys_parse_text_arg(arguments))

\* the arms of execute_base64_decode's match on what parse_text_arg returned
base64_decode_match(p) ==
    LET NotUtf8 ==
            Str(<<"D", "e", "c", "o", "d", "e", "d", " ", "d", "a", "t", "a", " ",
              "i", "s", " ", "n", "o", "t", " ", "v", "a", "l", "i", "d", " ", "U",
              "T", "F", "-", "8", " ", "t", "e", "x", "t">>)
        InvalidBase64Prefix ==
            Str(<<"I", "n", "v", "a", "l", "i", "d", " ", "b", "a", "s", "e", "6",
              "4", ":", " ">>)
        Text(t) ==
            IF IsSome(t) THEN sys_success_result(Unwrap(t))
            ELSE sys_error_result(NotUtf8)
        Decoded(d) ==
            IF ~d.ok THEN sys_error_result(InvalidBase64Prefix \o d.msg)
            ELSE Text(from_utf8(d.bytes))
    IN  IF ~p.ok THEN sys_error_result(p.msg)
        ELSE Decoded(base64_decode(as_bytes(p.text)))

execute_base64_decode(arguments) == base64_decode_match(sys_parse_text_arg(arguments))

\* A reading of SystemTime::now(): its distance from UNIX_EPOCH in whole
\* seconds and nanoseconds, and whether it lies before the epoch.
Reading(before, secs, nanos) == [before |-> before, secs |-> secs, nanos |-> nanos]

\* SystemTime::duration_since(UNIX_EPOCH): Ok(duration), or an Err whose
\* Display is the text below when the reading is earlier than the epoch
duration_since(now) ==
    IF now.before
    THEN [ok |-> FALSE,
          msg |-> Str(<<"s", "e", "c", "o", "n", "d", " ", "t", "i", "m", "e", " ",
                        "p", "r", "o", "v", "i", "d", "e", "d", " ", "w", "a", "s", " ",
                        "l", "a", "t", "e", "r", " ", "t", "h", "a", "n", " ",
                        "s", "e", "l", "f">>)]
    ELSE [ok |-> TRUE, secs |-> now.secs, nanos |-> now.nanos]

\* a timestamp rounded to the nearest second: duration.as_secs_f64().round()
execute_timestamp_rounded(now) ==
    LET Result(d) ==
            IF d.ok
            THEN sys_success_result(
                     NatToString(d.secs + (IF d.nanos >= 500000000 THEN 1 ELSE 0)))
            ELSE sys_error_result(d.msg)
    IN  Result(duration_since(now))

execute_timestamp(now) ==
    LET FailedPrefix ==
            Str(<<"F", "a", "i", "l", "e", "d", " ", "t", "o", " ", "g", "e", "t",
              " ", "t", "i", "m", "e", "s", "t", "a", "m", "p", ":", " ">>)
        Result(d) ==
            IF d.ok THEN sys_success_result(NatToString(d.secs))
            ELSE sys_error_result(FailedPrefix \o d.msg)
    IN  Result(duration_since(now))

\* Duration::as_nanos(): secs * 1_000_000_000 + nanos (a u128)
as_nanos(d) ==
    LimbsMulAdd(LimbsMulAdd(LimbsMulAdd(NatToLimbs(d.secs), 1000, 0), 1000, 0),
                1000, d.nanos)

\* 40503 = 0x9E37
HashU16 == <<55, 158>>

\* 2654435761 = 0x9E3779B1
HashU32 == <<177, 121, 55, 158>>

\* 11400714819323198485 = 0x9E3779B97F4A7C15
HashU64 == <<21, 124, 74, 127, 185, 121, 55, 158>>

\* Each takes one reading of the clock; [ok |-> FALSE] is the panic of
\* unwrap() on a reading earlier than the epoch.
random_u16(now) ==
    LET d == duration_since(now) IN
    IF ~d.ok THEN [ok |-> FALSE]
    ELSE [ok |-> TRUE, v |-> wrapping_mul(Truncate(as_nanos(d), 2), HashU16, 2)]

random_u32(now) ==
    LET d == duration_since(now) IN
    IF ~d.ok THEN [ok |-> FALSE]
    ELSE [ok |-> TRUE, v |-> wrapping_mul(Truncate(as_nanos(d), 4), HashU32, 4)]

\* a source that mixes a count of the calls made so far into the time
random_u64_counting(now) ==
    LET d == duration_since(now) IN
    IF ~d.ok THEN [ok |-> FALSE]
    ELSE [ok |-> TRUE,
          v |-> wrapping_mul(Truncate(as_nanos([d EXCEPT !.secs = @ + served]), 8),
                             HashU64, 8)]

random_u64(now) ==
    LET d == duration_since(now) IN
    IF ~d.ok THEN [ok |-> FALSE]
    ELSE [ok |-> TRUE, v |-> wrapping_mul(Truncate(as_nanos(d), 8), HashU64, 8)]

HexDigit(v) == IF v < 10 THEN 48 + v ELSE 97 + (v - 10)

\* {:0Nx} of an integer of N/2 bytes: two lowercase digits a byte, high first
LowerHex(x) ==
    Concat([i \in 1..Len(x) |->
        <<HexDigit(x[Len(x) + 1 - i] \div 16), HexDigit(x[Len(x) + 1 - i] % 16)>>])

\* the 16 bits as they are, with no version written into them
Version4Unset(v) == v

\* (v & 0x0fff) | 0x4000
Version4(v) == <<v[1], (v[2] % 16) + 64>>

\* (v & 0x3fff) | 0x8000
Variant10(v) == <<v[1], (v[2] % 64) + 128>>

\* v & 0xffffffffffff, which {:012x} prints in twelve digits
Low48(v) == SubSeq(v, 1, 6)

\* the k-th argument of the format! in execute_random_uuid, now being the
\* one reading of the clock its evaluation takes; [ok |-> FALSE] is the panic
uuid_argument(k, now) ==
    IF k = 1 THEN random_u32(now)
    ELSE IF k = 2 THEN random_u16(now)
    ELSE IF k = 3
    THEN LET r == random_u16(now) IN
         IF r.ok THEN [ok |-> TRUE, v |-> Version4(r.v)] ELSE r
    ELSE IF k = 4
    THEN LET r == random_u16(now) IN
         IF r.ok THEN [ok |-> TRUE, v |-> Variant10(r.v)] ELSE r
    ELSE LET r == random_u64(now) IN
         IF r.ok THEN [ok |-> TRUE, v |-> Low48(r.v)] ELSE r

\* "{:08x}-{:04x}-{:04x}-{:04x}-{:012x}" of the five arguments
uuid_format(args) ==
    LowerHex(args[1]) \o <<45>> \o LowerHex(args[2]) \o <<45>>
        \o LowerHex(args[3]) \o <<45>> \o LowerHex(args[4]) \o <<45>>
        \o LowerHex(args[5])

\* nows: the readings of the clock the call takes, one for each argument of
\* format! in the order they are evaluated.  The first reading before the
\* epoch is the last: [fault |-> TRUE] is the panic it ends in.
execute_random_uuid(nows) ==
    LET a1 == uuid_argument(1, nows[1])
        a2 == uuid_argument(2, nows[2])
        a3 == uuid_argument(3, nows[3])
        a4 == uuid_argument(4, nows[4])
        a5 == uuid_argument(5, nows[5])
    IN  IF ~a1.ok THEN [fault |-> TRUE]
        ELSE IF ~a2.ok THEN [fault |-> TRUE]
        ELSE IF ~a3.ok THEN [fault |-> TRUE]
        ELSE IF ~a4.ok THEN [fault |-> TRUE]
        ELSE IF ~a5.ok THEN [fault |-> TRUE]
        ELSE [fault |-> FALSE,
              ret |-> sys_success_result(uuid_format(<<a1.v, a2.v, a3.v, a4.v, a5.v>>))]

\* [fault |-> TRUE] when the call panics, else [fault |-> FALSE, ret |-> the
\* Option<CallToolResult> returned].  nows are the readings of the clock the
\* call takes: none for the base64 tools and for a name that is not listed.
sys_call_tool(req, nows) ==
    IF req.name = Str(<<"t", "i", "m", "e", "s", "t", "a", "m", "p">>)
    THEN [fault |-> FALSE, ret |-> Some(execute_timestamp(nows[1]))]
    ELSE IF req.name = Str(<<"r", "a", "n", "d", "o", "m", "_", "u", "u", "i", "d">>)
    THEN LET r == execute_random_uuid(nows) IN
         IF r.fault THEN r ELSE [fault |-> FALSE, ret |-> Some(r.ret)]
    ELSE IF req.name = Str(<<"b", "a", "s", "e", "6", "4", "_", "e", "n", "c", "o", "d", "e">>)
    THEN [fault |-> FALSE, ret |-> Some(execute_base64_encode(req.arguments))]
    ELSE IF req.name = Str(<<"b", "a", "s", "e", "6", "4", "_", "d", "e", "c", "o", "d", "e">>)
    THEN [fault |-> FALSE, ret |-> Some(execute_base64_decode(req.arguments))]
    ELSE [fault |-> FALSE, ret |-> None]

sys_tools ==
    <<[name |-> Str(<<"t", "i", "m", "e", "s", "t", "a", "m", "p">>),
       input_schema |->
            Str(<<"{">>) \o <<10>> \o Repeat(32, 24) \o Str(<<"\"", "t", "y", "p",
              "e", "\"", ":", " ", "\"", "o", "b", "j", "e", "c", "t", "\"",
              ",">>) \o <<10>> \o Repeat(32, 24) \o Str(<<"\"", "p", "r", "o", "p",
              "e", "r", "t", "i", "e", "s", "\"", ":", " ", "{", "}",
              ",">>) \o <<10>> \o Repeat(32, 24) \o Str(<<"\"", "r", "e", "q", "u",
              "i", "r", "e", "d", "\"", ":", " ", "[", "]">>) \o <<10>> \o Repeat(32,
              20) \o Str(<<"}">>),
       options |-> ToolOptions(
            Str(<<"G", "e", "t", " ", "c", "u", "r", "r", "e", "n", "t", " ",
              "U", "n", "i", "x", " ", "t", "i", "m", "e", "s", "t", "a",
              "m", "p">>),
            Str(<<"T", "i", "m", "e", "s", "t", "a", "m", "p">>))],
      [name |-> Str(<<"r", "a", "n", "d", "o", "m", "_", "u", "u", "i", "d">>),
       input_schema |->
            Str(<<"{">>) \o <<10>> \o Repeat(32, 24) \o Str(<<"\"", "t", "y", "p",
              "e", "\"", ":", " ", "\"", "o", "b", "j", "e", "c", "t", "\"",
              ",">>) \o <<10>> \o Repeat(32, 24) \o Str(<<"\"", "p", "r", "o", "p",
              "e", "r", "t", "i", "e", "s", "\"", ":", " ", "{", "}",
              ",">>) \o <<10>> \o Repeat(32, 24) \o Str(<<"\"", "r", "e", "q", "u",
              "i", "r", "e", "d", "\"", ":", " ", "[", "]">>) \o <<10>> \o Repeat(32,
              20) \o Str(<<"}">>),
       options |-> ToolOptions(
            Str(<<"G", "e", "n", "e", "r", "a", "t", "e", " ", "a", " ", "r",
              "a", "n", "d", "o", "m", " ", "U", "U", "I", "D", " ", "v",
              "4">>),
            Str(<<"R", "a", "n", "d", "o", "m", " ", "U", "U", "I", "D">>))],
      [name |-> Str(<<"b", "a", "s", "e", "6", "4", "_", "e", "n", "c", "o", "d", "e">>),
       input_schema |->
            Str(<<"{">>) \o <<10>> \o Repeat(32, 24) \o Str(<<"\"", "t", "y", "p",
              "e", "\"", ":", " ", "\"", "o", "b", "j", "e", "c", "t", "\"",
              ",">>) \o <<10>> \o Repeat(32, 24) \o Str(<<"\"", "p", "r", "o", "p",
              "e", "r", "t", "i", "e", "s", "\"", ":", " ",
              "{">>) \o <<10>> \o Repeat(32, 28) \o Str(<<"\"", "t", "e", "x", "t",
              "\"", ":", " ", "{", "\"", "t", "y", "p", "e", "\"", ":", " ", "\"",
              "s", "t", "r", "i", "n", "g", "\"", ",", " ", "\"", "d", "e", "s", "c",
              "r", "i", "p", "t", "i", "o", "n", "\"", ":", " ", "\"", "T", "e", "x",
              "t", " ", "t", "o", " ", "e", "n", "c", "o", "d", "e", " ", "t", "o",
              " ", "b", "a", "s", "e", "6", "4", "\"", "}">>) \o <<10>> \o Repeat(32,
              24) \o Str(<<"}", ",">>) \o <<10>> \o Repeat(32, 24) \o Str(<<"\"",
              "r", "e", "q", "u", "i", "r", "e", "d", "\"", ":", " ", "[", "\"", "t",
              "e", "x", "t", "\"", "]">>) \o <<10>> \o Repeat(32, 20) \o Str(<<"}">>),
       options |-> ToolOptions(
            Str(<<"E", "n", "c", "o", "d", "e", " ", "s", "t", "r", "i", "n",
              "g", " ", "t", "o", " ", "b", "a", "s", "e", "6", "4">>),
            Str(<<"B", "a", "s", "e", "6", "4", " ", "E", "n", "c", "o", "d",
              "e">>))],
      [name |-> Str(<<"b", "a", "s", "e", "6", "4", "_", "d", "e", "c", "o", "d", "e">>),
       input_schema |->
            Str(<<"{">>) \o <<10>> \o Repeat(32, 24) \o Str(<<"\"", "t", "y", "p",
              "e", "\"", ":", " ", "\"", "o", "b", "j", "e", "c", "t", "\"",
              ",">>) \o <<10>> \o Repeat(32, 24) \o Str(<<"\"", "p", "r", "o", "p",
              "e", "r", "t", "i", "e", "s", "\"", ":", " ",
              "{">>) \o <<10>> \o Repeat(32, 28) \o Str(<<"\"", "t", "e", "x", "t",
              "\"", ":", " ", "{", "\"", "t", "y", "p", "e", "\"", ":", " ", "\"",
              "s", "t", "r", "i", "n", "g", "\"", ",", " ", "\"", "d", "e", "s", "c",
              "r", "i", "p", "t", "i", "o", "n", "\"", ":", " ", "\"", "B", "a", "s",
              "e", "6", "4", " ", "t", "e", "x", "t", " ", "t", "o", " ", "d", "e",
              "c", "o", "d", "e", "\"", "}">>) \o <<10>> \o Repeat(32,
              24) \o Str(<<"}", ",">>) \o <<10>> \o Repeat(32, 24) \o Str(<<"\"",
              "r", "e", "q", "u", "i", "r", "e", "d", "\"", ":", " ", "[", "\"", "t",
              "e", "x", "t", "\"", "]">>) \o <<10>> \o Repeat(32, 20) \o Str(<<"}">>),
       options |-> ToolOptions(
            Str(<<"D", "e", "c", "o", "d", "e", " ", "b", "a", "s", "e", "6",
              "4", " ", "t", "o", " ", "s", "t", "r", "i", "n", "g">>),
            Str(<<"B", "a", "s", "e", "6", "4", " ", "D", "e", "c", "o", "d",
              "e">>))]>>

sys_list_tools(req) == [tools |-> sys_tools, next_cursor |-> None, meta |-> None]

(***************************************************************************)
(* The host's calls.  One call is outstanding at a time: the host sends a  *)
(* request to a provider, the provider answers, the host takes the answer. *)
(***************************************************************************)
\* JSON number literals for the calculator fields
NumberLiterals ==
    {Str(<<"0">>),
     Str(<<"-", "0", ".", "0">>),
     Str(<<"-", "0">>),
     Str(<<"2">>),
     Str(<<"3">>),
     Str(<<"1", "0">>),
     Str(<<"0", ".", "5">>),
     Str(<<"-", "4">>),
     Str(<<"1", "e", "3", "0", "8">>),
     Str(<<"1", "e", "-", "1", "0">>)}

\* bodies of JSON string literals for the text field, escapes included
TextLiterals ==
    {<<>>,
     Str(<<"h", "i">>),
     Str(<<"h", "e", "l", "l", "o">>),
     Str(<<"H", "e", "l", "l", "o", " ", "W", "o", "r", "l", "d">>),
     Str(<<" ", " ", "a", " ", " ", "b", " ">>),
     Str(<<"a", "\\", "t", "b", " ", "c", "\\", "n", "d">>),
     Str(<<"s", "t", "r", "a">>) \o <<223>> \o Str(<<"e">>),
     Str(<<"\\", "u", "0", "0", "e", "9", "t">>) \o <<201>>,
     <<128512>> \o Str(<<" ", "o", "k">>),
     Str(<<"a", "G", "k", "=">>),
     Str(<<"a", "G", "k">>),
     Str(<<"!", "!", "!", "!">>),
     Str(<<"/", "w", "=", "=">>),
     Str(<<"a", "G", "V", "s", "b", "G", "8", "=">>),
     Str(<<"a", "a", "=", "=">>),
     Str(<<"a">>),
     Str(<<"1", "2", " ", "3", "4">>),
     Str(<<"a", " ", "b", " ", " ", "c">>),
     Str(<<" ", " ", " ">>),
     \* a capital sigma at the end of a word, then a titlecase letter and two
     \* small letters outside Latin-1: U+0391 U+03A3, U+01C5 U+0101 U+0131
     <<913, 931, 32, 453, 257, 305>>,
     \* a capital sigma before a case-ignorable mark and a letter, so not final:
     \* U+03A3 U+10EC5
     <<97, 931, 69317, 98>>}

\* argument strings that are not JSON, not objects, or lack or mistype a field, and a few
\* that carry more than is needed
OtherArguments ==
    {<<>>,
     Str(<<"n", "o", "t", " ", "j", "s", "o", "n">>),
     Str(<<"{">>),
     Str(<<"{", "\"", "a", "\"", ":", "1", ",", "}">>),
     Str(<<"{", "\"", "t", "e", "x", "t", "\"", ":", "\"", "a", "\"", "}",
        " ", "x">>),
     Str(<<"{", "\"", "a", "\"", ":", "1", "e", "4", "0", "0", ",", "\"",
        "b", "\"", ":", "1", "}">>),
     Str(<<"[", "1", ",", "2", "]">>),
     Str(<<"5">>),
     Str(<<"\"", "t", "e", "x", "t", "\"">>),
     Str(<<"n", "u", "l", "l">>),
     Str(<<"t", "r", "u", "e">>),
     Str(<<"{", "}">>),
     Str(<<"{", "\"", "a", "\"", ":", "1", "}">>),
     Str(<<"{", "\"", "b", "\"", ":", "2", "}">>),
     Str(<<"{", "\"", "a", "\"", ":", "\"", "5", "\"", ",", "\"", "b", "\"",
        ":", "3", "}">>),
     Str(<<"{", "\"", "a", "\"", ":", "5", ",", "\"", "b", "\"", ":", "\"",
        "3", "\"", "}">>),
     Str(<<"{", "\"", "a", "\"", ":", "n", "u", "l", "l", ",", "\"", "b",
        "\"", ":", "1", "}">>),
     Str(<<"{", "\"", "a", "\"", ":", "t", "r", "u", "e", ",", "\"", "b",
        "\"", ":", "1", "}">>),
     Str(<<"{", "\"", "a", "\"", ":", "[", "1", "]", ",", "\"", "b", "\"",
        ":", "1", "}">>),
     Str(<<"{", "\"", "a", "\"", ":", "{", "}", ",", "\"", "b", "\"", ":",
        "1", "}">>),
     Str(<<"{", "\"", "a", "\"", ":", "\"", "x", "\"", ",", "\"", "b", "\"",
        ":", "\"", "y", "\"", "}">>),
     Str(<<"{", "\"", "t", "e", "x", "t", "\"", ":", "5", "}">>),
     Str(<<"{", "\"", "t", "e", "x", "t", "\"", ":", "n", "u", "l", "l",
        "}">>),
     Str(<<"{", "\"", "t", "e", "x", "t", "\"", ":", "[", "\"", "a", "\"",
        "]", "}">>),
     Str(<<"{", "\"", "T", "e", "x", "t", "\"", ":", "\"", "a", "\"", "}">>),
     Str(<<"{", "\"", "t", "e", "x", "t", "\"", ":", "\"", "a", "\"", ",",
        "\"", "e", "x", "t", "r", "a", "\"", ":", "1", "}">>),
     Str(<<"{", "\"", "a", "\"", ":", "1", ",", "\"", "b", "\"", ":", "2",
        ",", "\"", "c", "\"", ":", "3", "}">>),
     Str(<<" ", "{", "\"", "a", "\"", ":", "6", ",", "\"", "b", "\"", ":",
        "3", "}", " ">>),
     Str(<<"{", "\"", "a", "\"", ":", "1", ",", "\"", "a", "\"", ":", "\"",
        "x", "\"", ",", "\"", "b", "\"", ":", "2", "}">>),
     Str(<<"{", "\"", "t", "e", "x", "t", "\"", ":", "1", ",", "\"", "t",
        "e", "x", "t", "\"", ":", "\"", "b", "\"", "}">>),
     Str(<<"{", "\"", "a", "\"", ":", "2", ",", "\"", "b", "\"", ":", "3",
        ",", "\"", "t", "e", "x", "t", "\"", ":", "\"", "h", "i", "\"", "}">>),
     Str(<<"{", "\"", "b", "\"", ":", "0", "}">>),
     Str(<<"{", "\"", "a", "\"", ":", "\"", "x", "\"", ",", "\"", "b", "\"",
        ":", "0", "}">>)}

Providers == {"calculator", "string-utils", "system-info"}

\* the arguments field of a request to p: absent, or one of the strings above
Arguments(p) ==
    LET \* {"a":x,"b":y}
        NumberArguments ==
            {Str(<<"{", "\"", "a", "\"", ":">>) \o x \o Str(<<",", "\"", "b", "\"", ":">>)
                \o y \o Str(<<"}">>) : x \in NumberLiterals, y \in NumberLiterals}
        \* {"text":"t"}
        TextArguments ==
            {Str(<<"{", "\"", "t", "e", "x", "t", "\"", ":", "\"">>) \o t
                \o Str(<<"\"", "}">>) : t \in TextLiterals}
    IN  {None} \cup
        {Some(a) : a \in OtherArguments \cup
            (IF p = "calculator" THEN NumberArguments ELSE TextArguments)}

ToolNames(tools) == {tools[i].name : i \in 1..Len(tools)}

\* names no provider lists
UnknownNames ==
    {<<>>,
     Str(<<"u", "n", "k", "n", "o", "w", "n">>),
     Str(<<"A", "D", "D">>),
     Str(<<"a", "d", "d", " ">>),
     Str(<<"U", "p", "p", "e", "r", "c", "a", "s", "e">>),
     Str(<<"t", "i", "m", "e">>)}

Names == ToolNames(calc_tools) \cup ToolNames(str_tools) \cup ToolNames(sys_tools)
            \cup UnknownNames

\* the cursor of a ListToolsRequest: absent, or a string
Cursor ==
    {None} \cup {Some(c) : c \in {<<>>,
                                  Str(<<"1">>),
                                  Str(<<"a", "d", "d">>),
                                  Str(<<"n", "e", "x", "t">>)}}

\* readings of the system clock: one before the epoch, the epoch itself, one after
Readings ==
    {Reading(TRUE, 1, 0), Reading(FALSE, 0, 0), Reading(FALSE, 1700000000, 123456789)}

\* the calls one host makes before it stops
MaxServed == 2

\* the readings of the clock a call of system-info's tool can take, each one
\* of `times`: one for timestamp; for random_uuid five at or after the epoch,
\* or up to four of them and then the one before the epoch it panics on; none
\* for the others
ClockRuns(name, times) ==
    LET After == {r \in times : ~r.before}
        Before == {r \in times : r.before}
    IN  IF name = Str(<<"t", "i", "m", "e", "s", "t", "a", "m", "p">>)
        THEN {<<r>> : r \in times}
        ELSE IF name = Str(<<"r", "a", "n", "d", "o", "m", "_", "u", "u", "i", "d">>)
        THEN [1..5 -> After]
                \cup UNION {{Append(taken, early) : taken \in [1..k -> After], early \in Before} :
                               k \in 0..4}
        ELSE {<<>>}

Idle ==
    /\ pc = "idle"
    /\ served < MaxServed

Answer(p, kind, req, resp, nows) ==
    /\ pc' = "called"
    /\ provider' = p
    /\ op' = kind
    /\ request' = req
    /\ response' = resp
    /\ clock' = nows
    /\ UNCHANGED <<locals, served>>

Init ==
    /\ pc = "idle"
    /\ provider = "none"
    /\ op = "none"
    /\ request = None
    /\ response = None
    /\ clock = <<>>
    /\ locals = <<>>
    /\ served = 0

CalculatorCallTool ==
    /\ Idle
    /\ \E name \in Names, arguments \in Arguments("calculator") :
        LET req == [name |-> name, arguments |-> arguments] IN
        Answer("calculator", "call_tool", req,
               [fault |-> FALSE, ret |-> calc_call_tool(req)], <<>>)

StringUtilsCallTool ==
    /\ Idle
    /\ \E name \in Names, arguments \in Arguments("string-utils") :
        LET req == [name |-> name, arguments |-> arguments] IN
        Answer("string-utils", "call_tool", req,
               [fault |-> FALSE, ret |-> str_call_tool(req)], <<>>)

SystemInfoCallTool ==
    /\ Idle
    /\ \E name \in Names, arguments \in Arguments("system-info") :
        \E nows \in ClockRuns(name, Readings) :
            LET req == [name |-> name, arguments |-> arguments] IN
            Answer("system-info", "call_tool", req, sys_call_tool(req, nows), nows)

CalculatorListTools ==
    /\ Idle
    /\ \E cursor \in Cursor :
        LET req == [cursor |-> cursor] IN
        Answer("calculator", "list_tools", req,
               [fault |-> FALSE, ret |-> calc_list_tools(req)], <<>>)

StringUtilsListTools ==
    /\ Idle
    /\ \E cursor \in Cursor :
        LET req == [cursor |-> cursor] IN
        Answer("string-utils", "list_tools", req,
               [fault |-> FALSE, ret |-> str_list_tools(req)], <<>>)

SystemInfoListTools ==
    /\ Idle
    /\ \E cursor \in Cursor :
        LET req == [cursor |-> cursor] IN
        Answer("system-info", "list_tools", req,
               [fault |-> FALSE, ret |-> sys_list_tools(req)], <<>>)

\* the host takes the answer (or sees the fault) and is free to call again
Return ==
    /\ pc = "called"
    /\ pc' = "idle"
    /\ provider' = "none"
    /\ op' = "none"
    /\ request' = None
    /\ response' = None
    /\ clock' = <<>>
    /\ served' = served + 1
    /\ UNCHANGED locals

Next ==
    \/ CalculatorCallTool
    \/ StringUtilsCallTool
    \/ SystemInfoCallTool
    \/ CalculatorListTools
    \/ StringUtilsListTools
    \/ SystemInfoListTools
    \/ Return

Spec == Init /\ [][Next]_vars

(***************************************************************************)
(* The contract of the providers, read off the answered call               *)
(***************************************************************************)
\* the catalog provider p lists
ProviderTools(p) ==
    IF p = "calculator" THEN calc_tools
    ELSE IF p = "string-utils" THEN str_tools
    ELSE sys_tools

\* the tools of p that take parameters
ParameterTools(p) ==
    IF p = "calculator"
    THEN {Str(<<"a", "d", "d">>),
          Str(<<"s", "u", "b", "t", "r", "a", "c", "t">>),
          Str(<<"m", "u", "l", "t", "i", "p", "l", "y">>),
          Str(<<"d", "i", "v", "i", "d", "e">>)}
    ELSE IF p = "string-utils"
    THEN {Str(<<"u", "p", "p", "e", "r", "c", "a", "s", "e">>),
          Str(<<"l", "o", "w", "e", "r", "c", "a", "s", "e">>),
          Str(<<"r", "e", "v", "e", "r", "s", "e">>),
          Str(<<"w", "o", "r", "d", "_", "c", "o", "u", "n", "t">>)}
    ELSE {Str(<<"b", "a", "s", "e", "6", "4", "_", "e", "n", "c", "o", "d", "e">>),
          Str(<<"b", "a", "s", "e", "6", "4", "_", "d", "e", "c", "o", "d", "e">>)}

\* the names of p's tools in the order they are declared
DeclaredNames(p) ==
    IF p = "calculator"
    THEN <<Str(<<"a", "d", "d">>),
           Str(<<"s", "u", "b", "t", "r", "a", "c", "t">>),
           Str(<<"m", "u", "l", "t", "i", "p", "l", "y">>),
           Str(<<"d", "i", "v", "i", "d", "e">>)>>
    ELSE IF p = "string-utils"
    THEN <<Str(<<"u", "p", "p", "e", "r", "c", "a", "s", "e">>),
           Str(<<"l", "o", "w", "e", "r", "c", "a", "s", "e">>),
           Str(<<"r", "e", "v", "e", "r", "s", "e">>),
           Str(<<"w", "o", "r", "d", "_", "c", "o", "u", "n", "t">>)>>
    ELSE <<Str(<<"t", "i", "m", "e", "s", "t", "a", "m", "p">>),
           Str(<<"r", "a", "n", "d", "o", "m", "_", "u", "u", "i", "d">>),
           Str(<<"b", "a", "s", "e", "6", "4", "_", "e", "n", "c", "o", "d", "e">>),
           Str(<<"b", "a", "s", "e", "6", "4", "_", "d", "e", "c", "o", "d", "e">>)>>

CallAnswered == pc = "called" /\ op = "call_tool"

ListAnswered == pc = "called" /\ op = "list_tools"

Recognized == CallAnswered /\ request.name \in ToolNames(ProviderTools(provider))

NeedsParameters == CallAnswered /\ request.name \in ParameterTools(provider)

\* the call came back with an InvocationResult
HasResult == ~response.fault /\ IsSome(response.ret)

ResultText == Unwrap(response.ret).content[1].text

OneText(r) == Len(r.content) = 1 /\ r.content[1].block = "Text"

IsFailureResult ==
    HasResult /\ OneText(Unwrap(response.ret)) /\ Unwrap(response.ret).is_error = Some(TRUE)

IsSuccessResult ==
    HasResult /\ OneText(Unwrap(response.ret)) /\ Unwrap(response.ret).is_error = None

ArgumentsPresent == IsSome(request.arguments)

\* the arguments as the JSON parser reads them
ArgumentsJson == from_str(Unwrap(request.arguments))

RequiredFields(p) ==
    IF p = "calculator" THEN {Str(<<"a">>), Str(<<"b">>)} ELSE {Str(<<"t", "e", "x", "t">>)}

FieldKind(p) == IF p = "calculator" THEN "Number" ELSE "String"

\* JSON value v is an object whose field f holds a value of the kind
HasKind(v, f, kind) ==
    LET Kind(x) == IsSome(x) /\ Unwrap(x).t = kind
    IN  Kind(get(v, f))

\* the required fields the arguments lack or hold with another JSON type
BadFields ==
    {f \in RequiredFields(provider) : ~HasKind(ArgumentsJson.v, f, FieldKind(provider))}

ValidArguments == ArgumentsPresent /\ ArgumentsJson.ok /\ BadFields = {}

NumberField(f) == Unwrap(as_f64(Unwrap(get(ArgumentsJson.v, f))))

TextField == Unwrap(as_str(Unwrap(get(ArgumentsJson.v, Str(<<"t", "e", "x", "t">>)))))

MissingArgumentsText ==
    Str(<<"M", "i", "s", "s", "i", "n", "g", " ", "a", "r", "g", "u",
              "m", "e", "n", "t", "s">>)

InvalidJsonText ==
    Str(<<"I", "n", "v", "a", "l", "i", "d", " ", "J", "S", "O", "N",
              " ", "a", "r", "g", "u", "m", "e", "n", "t", "s", ":", " ">>)

ParameterText(f) ==
    Str(<<"M", "i", "s", "s", "i", "n", "g", " ", "o", "r", " ", "i",
              "n", "v", "a", "l", "i", "d", " ", "p", "a", "r", "a", "m",
              "e", "t", "e", "r", " ", "'">>) \o f \o Str(<<"'">>)

IsPrefix(p, s) == Len(p) <= Len(s) /\ SubSeq(s, 1, Len(p)) = p

Contains(s, p) ==
    \E i \in 0..(Len(s) - Len(p)) : SubSeq(s, i + 1, i + Len(p)) = p

\* an optional sign, digits, and optionally a point followed by digits
IsDecimalNumeral(t) ==
    LET body == IF Len(t) > 0 /\ t[1] = 45 THEN Tail(t) ELSE t
        dots == {i \in 1..Len(body) : body[i] = 46}
        Digits(d) == Len(d) > 0 /\ \A i \in 1..Len(d) : d[i] \in 48..57
        Split(at) == /\ Digits(SubSeq(body, 1, at - 1))
                     /\ Digits(SubSeq(body, at + 1, Len(body)))
    IN  IF dots = {} THEN Digits(body)
        ELSE Cardinality(dots) = 1 /\ Split(CHOOSE i \in dots : TRUE)

\* standard base64 with padding: whole quads, pads only at the end, no stray bits
CanonicalBase64(b) ==
    LET n == Len(b)
        pads == IF n >= 2 /\ b[n] = 61 /\ b[n - 1] = 61 THEN 2
                ELSE IF n >= 1 /\ b[n] = 61 THEN 1
                ELSE 0
        Sym(c) == c \in (65..90) \cup (97..122) \cup (48..57) \cup {43, 47}
        Val(c) == IF c \in 65..90 THEN c - 65
                  ELSE IF c \in 97..122 THEN c - 71
                  ELSE IF c \in 48..57 THEN c + 4
                  ELSE IF c = 43 THEN 62
                  ELSE 63
    IN  /\ n % 4 = 0
        /\ \A i \in 1..(n - pads) : Sym(b[i])
        /\ pads = 1 => Val(b[n - 1]) % 4 = 0
        /\ pads = 2 => Val(b[n - 2]) % 16 = 0

DecodesToText(t) ==
    /\ CanonicalBase64(as_bytes(t))
    /\ IsSome(from_utf8(base64_decode(as_bytes(t)).bytes))

\* the arguments of a tool that takes parameters are absent, are not JSON, or
\* lack a field or hold it with another type
ParseFailure == NeedsParameters /\ ~ValidArguments

\* the operation itself cannot give its value
DomainFailure ==
    \/ /\ provider = "calculator"
       /\ request.name = Str(<<"d", "i", "v", "i", "d", "e">>)
       /\ ValidArguments
       /\ F64IsZero(NumberField(Str(<<"b">>)))
    \/ /\ provider = "system-info"
       /\ request.name = Str(<<"b", "a", "s", "e", "6", "4", "_", "d", "e", "c", "o", "d",
              "e">>)
       /\ ValidArguments
       /\ ~DecodesToText(TextField)
    \/ /\ provider = "system-info"
       /\ request.name = Str(<<"t", "i", "m", "e", "s", "t", "a", "m", "p">>)
       /\ clock[1].before

\* C1: in each provider call_tool answers a name that none of the provider's
\* tools bears with no result at all, whatever the arguments are; it neither
\* faults nor returns an error result for such a name.
UnknownNameNoResult ==
    (CallAnswered /\ request.name \notin ToolNames(ProviderTools(provider)))
        => response = [fault |-> FALSE, ret |-> None]

\* the calculator is asked for ADD with well-formed arguments and returns nothing
UnknownNameNoResultWitness ==
    /\ CallAnswered
    /\ provider = "calculator"
    /\ request.name = Str(<<"A", "D", "D">>)
    /\ request.arguments = Some(Str(<<"{", "\"", "a", "\"", ":", "2", ",", "\"", "b", "\"", ":",
              "3", "}">>))
    /\ response.ret = None

\* C2: for every name a provider lists and every arguments value call_tool
\* returns an InvocationResult, never a fault, and every parse failure and
\* every domain failure comes back as an is_error=true result with a
\* diagnostic text.
RecognizedAlwaysAnswered ==
    Recognized =>
        /\ HasResult
        /\ OneText(Unwrap(response.ret))
        /\ (ParseFailure \/ DomainFailure) => (IsFailureResult /\ ResultText # <<>>)

\* random_uuid is called while the clock reads a time before the epoch, and the
\* call ends in a fault
RandomUuidFaults ==
    /\ CallAnswered
    /\ provider = "system-info"
    /\ request.name = Str(<<"r", "a", "n", "d", "o", "m", "_", "u", "u", "i", "d">>)
    /\ clock[1].before
    /\ response.fault

\* C3: each of the ten tools that take parameters, called with the arguments
\* field absent, returns an is_error=true result whose text is exactly
\* "Missing arguments".
MissingArgumentsReported ==
    (NeedsParameters /\ ~ArgumentsPresent)
        => (IsFailureResult /\ ResultText = MissingArgumentsText)

\* word_count is called without arguments and says so
MissingArgumentsWitness ==
    /\ NeedsParameters
    /\ request.name = Str(<<"w", "o", "r", "d", "_", "c", "o", "u", "n", "t">>)
    /\ ~ArgumentsPresent
    /\ IsFailureResult
    /\ ResultText = MissingArgumentsText

\* C4: when the arguments of a tool that takes parameters parse as JSON but
\* are no object, or lack a required field, or hold it with another JSON type,
\* the result is is_error=true with the text "Missing or invalid parameter
\* '<field>'" naming such a field; nothing is coerced, so a quoted numeral,
\* null, a boolean, an array or an object is no number, and a number is no
\* string.
WrongShapeReported ==
    (NeedsParameters /\ ArgumentsPresent /\ ArgumentsJson.ok /\ BadFields # {})
        => /\ IsFailureResult
           /\ ResultText \in {ParameterText(f) : f \in BadFields}

\* add is given the quoted numeral "5" for a and rejects it
QuotedNumeralRejected ==
    /\ NeedsParameters
    /\ request.name = Str(<<"a", "d", "d">>)
    /\ request.arguments = Some(Str(<<"{", "\"", "a", "\"", ":", "\"", "5", "\"", ",", "\"", "b",
              "\"", ":", "3", "}">>))
    /\ IsFailureResult
    /\ ResultText = ParameterText(Str(<<"a">>))

\* C5: when the arguments of a tool that takes parameters are present but do
\* not parse as JSON, the result is is_error=true and its text starts with
\* "Invalid JSON arguments: "; the rest of the text is the parser's message, so
\* nothing of the operation is in it.
InvalidJsonReported ==
    (NeedsParameters /\ ArgumentsPresent /\ ~ArgumentsJson.ok)
        => /\ IsFailureResult
           /\ IsPrefix(InvalidJsonText, ResultText)
           /\ ResultText = InvalidJsonText \o ArgumentsJson.msg

\* reverse is given a text that is not JSON
InvalidJsonWitness ==
    /\ NeedsParameters
    /\ request.name = Str(<<"r", "e", "v", "e", "r", "s", "e">>)
    /\ request.arguments = Some(Str(<<"n", "o", "t", " ", "j", "s", "o", "n">>))
    /\ IsFailureResult
    /\ IsPrefix(InvalidJsonText, ResultText)

\* C6: divide with b zero of either sign returns is_error=true with a text
\* containing "Division by zero", whatever a is; with any other b it returns a
\* success whose text is the decimal numeral of a/b.
DivideContract ==
    (CallAnswered /\ provider = "calculator" /\ request.name = Str(<<"d", "i", "v", "i", "d", "e">>)
        /\ ValidArguments)
        => IF F64IsZero(NumberField(Str(<<"b">>)))
           THEN /\ IsFailureResult
                /\ Contains(ResultText,
                            Str(<<"D", "i", "v", "i", "s", "i", "o", "n", " ", "b", "y", " ", "z", "e", "r", "o">>))
           ELSE IsSuccessResult /\ IsDecimalNumeral(ResultText)

\* divide of 1e308 by 1e-10 succeeds with a text that is no numeral
DivideOverflows ==
    /\ CallAnswered
    /\ provider = "calculator"
    /\ request.name = Str(<<"d", "i", "v", "i", "d", "e">>)
    /\ request.arguments = Some(Str(<<"{", "\"", "a", "\"", ":", "1", "e", "3", "0", "8", ",",
              "\"", "b", "\"", ":", "1", "e", "-", "1", "0", "}">>))
    /\ IsSuccessResult
    /\ ResultText = Str(<<"i", "n", "f">>)

\* C7: add, subtract and multiply, given JSON numbers a and b, always return a
\* success whose text is the decimal numeral of the sum, difference or
\* product; add of 2 and 3 returns "5".
ArithmeticContract ==
    (CallAnswered /\ provider = "calculator"
        /\ request.name \in {Str(<<"a", "d", "d">>),
                             Str(<<"s", "u", "b", "t", "r", "a", "c", "t">>),
                             Str(<<"m", "u", "l", "t", "i", "p", "l", "y">>)}
        /\ ValidArguments)
        => /\ IsSuccessResult
           /\ IsDecimalNumeral(ResultText)
           /\ (request.name = Str(<<"a", "d", "d">>)
                /\ request.arguments =
                    Some(Str(<<"{", "\"", "a", "\"", ":", "2", ",", "\"", "b", "\"", ":", "3", "}">>)))
                    => ResultText = Str(<<"5">>)

\* add of 1e308 and 1e308 succeeds with a text that is no numeral
AddOverflows ==
    /\ CallAnswered
    /\ provider = "calculator"
    /\ request.name = Str(<<"a", "d", "d">>)
    /\ request.arguments = Some(Str(<<"{", "\"", "a", "\"", ":", "1", "e", "3", "0", "8", ",",
              "\"", "b", "\"", ":", "1", "e", "3", "0", "8", "}">>))
    /\ IsSuccessResult
    /\ ResultText = Str(<<"i", "n", "f">>)

\* C8: every InvocationResult a provider returns holds exactly one Text block
\* and no structured_content; its is_error is absent or true, and it is true
\* exactly when a parse failure or a failure of the operation occurred.
ResultShape ==
    (CallAnswered /\ HasResult) =>
        /\ OneText(Unwrap(response.ret))
        /\ Unwrap(response.ret).structured_content = None
        /\ Unwrap(response.ret).is_error \in {None, Some(TRUE)}
        /\ Unwrap(response.ret).is_error = Some(TRUE) <=> (ParseFailure \/ DomainFailure)

\* base64_decode is given /w==, which decodes to a byte that is no text
ResultShapeWitness ==
    /\ CallAnswered
    /\ HasResult
    /\ request.name = Str(<<"b", "a", "s", "e", "6", "4", "_", "d", "e", "c", "o", "d",
              "e">>)
    /\ request.arguments = Some(Str(<<"{", "\"", "t", "e", "x", "t", "\"", ":", "\"", "/", "w",
              "=", "=", "\"", "}">>))
    /\ DomainFailure
    /\ Unwrap(response.ret).is_error = Some(TRUE)

\* the list a provider returned
Listed == IF provider = "calculator" THEN response.ret.val ELSE response.ret

\* C9: list_tools of every provider returns the provider's whole catalog in
\* declaration order, whatever the cursor and whatever calls came before;
\* next_cursor is absent and the call never fails (the calculator returns Ok).
ListToolsStable ==
    ListAnswered =>
        /\ ~response.fault
        /\ provider = "calculator" => response.ret.ok
        /\ [i \in 1..Len(Listed.tools) |-> Listed.tools[i].name] = DeclaredNames(provider)
        /\ Listed.tools = ProviderTools(provider)
        /\ Listed.next_cursor = None

\* the calculator lists its four tools for a request with a cursor, after an
\* earlier call
ListToolsWitness ==
    /\ ListAnswered
    /\ provider = "calculator"
    /\ request.cursor = Some(Str(<<"n", "e", "x", "t">>))
    /\ served = 1
    /\ Len(Listed.tools) = 4

\* the declared input_schema of the tool called, parsed
CalledSchema ==
    LET tools == ProviderTools(provider)
        tool == tools[CHOOSE i \in 1..Len(tools) : tools[i].name = request.name]
    IN  from_str(tool.input_schema).v

\* the kind of JSON value a schema type names
KindOfType(type) ==
    IF type = Str(<<"n", "u", "m", "b", "e", "r">>) THEN "Number"
    ELSE IF type = Str(<<"s", "t", "r", "i", "n", "g">>) THEN "String"
    ELSE IF type = Str(<<"o", "b", "j", "e", "c", "t">>) THEN "Object"
    ELSE "Other"

\* value v has the schema's type, holds every required field, and holds every
\* declared property it has with the declared type
SchemaAccepts(schema, v) ==
    LET type == Unwrap(get(schema, Str(<<"t", "y", "p", "e">>))).s
        required == Unwrap(get(schema, Str(<<"r", "e", "q", "u", "i", "r", "e", "d">>))).a
        properties == Unwrap(get(schema, Str(<<"p", "r", "o", "p", "e", "r", "t", "i", "e", "s">>))).o
        Declared(j) == KindOfType(Unwrap(get(properties[j].val, Str(<<"t", "y", "p", "e">>))).s)
    IN  /\ v.t = KindOfType(type)
        /\ \A i \in 1..Len(required) : IsSome(get(v, required[i].s))
        /\ \A j \in 1..Len(properties) :
              IsSome(get(v, properties[j].key))
                  => HasKind(v, properties[j].key, Declared(j))

\* the result is none of the argument parser's diagnostics
ParseErrorFree ==
    /\ HasResult
    /\ ~ /\ Unwrap(response.ret).is_error = Some(TRUE)
         /\ \/ ResultText = MissingArgumentsText
            \/ IsPrefix(InvalidJsonText, ResultText)
            \/ IsPrefix(Str(<<"M", "i", "s", "s", "i", "n", "g", " ", "o", "r", " ", "i",
              "n", "v", "a", "l", "i", "d", " ", "p", "a", "r", "a", "m",
              "e", "t", "e", "r", " ", "'">>),
                        ResultText)

\* C10: for every tool of every provider the declared input_schema is exactly
\* what the provider accepts: a call is free of parse errors if and only if
\* its arguments are present, are a JSON object, and satisfy the schema's
\* required fields and declared types.
SchemaMatchesParser ==
    (Recognized /\ ~response.fault) =>
        (ParseErrorFree <=>
            (ArgumentsPresent /\ ArgumentsJson.ok
                /\ SchemaAccepts(CalledSchema, ArgumentsJson.v)))

\* timestamp is given arguments that are not JSON and answers with a success
TimestampIgnoresArguments ==
    /\ CallAnswered
    /\ provider = "system-info"
    /\ request.name = Str(<<"t", "i", "m", "e", "s", "t", "a", "m", "p">>)
    /\ request.arguments = Some(Str(<<"n", "o", "t", " ", "j", "s", "o", "n">>))
    /\ IsSuccessResult

\* C11: whatever the tool, the parameterless timestamp and random_uuid
\* included, arguments that are present but are not JSON, or are a JSON array
\* or scalar, are never answered with a success result.
PresentArgumentsAreAnObject ==
    (Recognized /\ ArgumentsPresent /\ HasResult
        /\ (IF ArgumentsJson.ok THEN ArgumentsJson.v.t # "Object" ELSE TRUE))
        => Unwrap(response.ret).is_error = Some(TRUE)

\* random_uuid is given a JSON array as arguments and answers with a success
RandomUuidTakesAnArray ==
    /\ CallAnswered
    /\ provider = "system-info"
    /\ request.name = Str(<<"r", "a", "n", "d", "o", "m", "_", "u", "u", "i", "d">>)
    /\ request.arguments = Some(Str(<<"[", "1", ",", "2", "]">>))
    /\ IsSuccessResult

\* C12: timestamp and random_uuid answer every reading of the clock, one before
\* the epoch included, with a well-formed InvocationResult; a reading before
\* the epoch gives an is_error=true result and never a fault.
ClockFailureReported ==
    (CallAnswered /\ provider = "system-info"
        /\ request.name \in {Str(<<"t", "i", "m", "e", "s", "t", "a", "m", "p">>),
                             Str(<<"r", "a", "n", "d", "o", "m", "_", "u", "u", "i", "d">>)})
        => /\ HasResult
           /\ OneText(Unwrap(response.ret))
           /\ (\E i \in 1..Len(clock) : clock[i].before) => IsFailureResult

\* random_uuid reads the clock four times after the epoch and once before it,
\* and the call ends in a fault
RandomUuidFaultsOnLastRead ==
    /\ CallAnswered
    /\ provider = "system-info"
    /\ request.name = Str(<<"r", "a", "n", "d", "o", "m", "_", "u", "u", "i", "d">>)
    /\ \A i \in 1..4 : ~clock[i].before
    /\ clock[5].before
    /\ response.fault

\* what provider q returns when the host offers it the request, every clock
\* reading it takes being r: timestamp takes one, random_uuid five, or one
\* when that one lies before the epoch
Offered(q, req, r) ==
    LET taken ==
            IF req.name = Str(<<"t", "i", "m", "e", "s", "t", "a", "m", "p">>) THEN 1
            ELSE IF req.name = Str(<<"r", "a", "n", "d", "o", "m", "_", "u", "u", "i", "d">>)
            THEN (IF r.before THEN 1 ELSE 5)
            ELSE 0
    IN  IF q = "calculator" THEN [fault |-> FALSE, ret |-> calc_call_tool(req)]
        ELSE IF q = "string-utils" THEN [fault |-> FALSE, ret |-> str_call_tool(req)]
        ELSE sys_call_tool(req, [i \in 1..taken |-> r])

\* the answer o is an InvocationResult
IsResult(o) == IF o.fault THEN FALSE ELSE IsSome(o.ret)

\* the answer o is not "not mine": the provider took the request for one of
\* its tools
IsClaim(o) == o # [fault |-> FALSE, ret |-> None]

\* the clock readings to try on the providers that did not answer the call:
\* only system-info reads the clock
OtherClock ==
    IF provider = "system-info" THEN {Reading(FALSE, 0, 0)} ELSE Readings

\* C13: a call_tool request offered to all three providers gets a result from
\* at most one of them and nothing from the others; the three catalogs share
\* no name, and a listed name is claimed by exactly one provider.
OneProviderClaims ==
    LET listed == [p \in Providers |-> ToolNames(ProviderTools(p))]
    IN  /\ \A p \in Providers, q \in Providers :
              p # q => listed[p] \cap listed[q] = {}
        /\ CallAnswered =>
              \A r \in OtherClock :
                  LET answer == [q \in Providers |->
                                    IF q = provider THEN response
                                    ELSE Offered(q, request, r)]
                  IN  /\ Cardinality({q \in Providers : IsResult(answer[q])}) <= 1
                      /\ Cardinality({q \in Providers : IsClaim(answer[q])}) <= 1
                      /\ \A q \in Providers :
                            IsClaim(answer[q]) <=> request.name \in listed[q]
                      /\ HasResult =>
                            \A q \in Providers \ {provider} : ~IsClaim(answer[q])

\* string-utils answers uppercase, which the other two providers leave alone
OneProviderClaimsWitness ==
    /\ CallAnswered
    /\ provider = "string-utils"
    /\ request.name = Str(<<"u", "p", "p", "e", "r", "c", "a", "s", "e">>)
    /\ request.arguments = Some(Str(<<"{", "\"", "t", "e", "x", "t", "\"", ":", "\"", "h", "i", "\"", "}">>))
    /\ HasResult
    /\ ~IsClaim(Offered("calculator", request, Reading(FALSE, 0, 0)))
    /\ ~IsClaim(Offered("system-info", request, Reading(FALSE, 0, 0)))

(***************************************************************************)
(* Concurrent dispatch.  Under Concurrent the host keeps several           *)
(* invocations of one provider in flight and their steps interleave: pc,   *)
(* request, locals and response hold one entry per invocation.  A listing  *)
(* returns the catalog; a call matches the name of its tool, parses its    *)
(* arguments into a local of its own and computes its result from that     *)
(* local.  The providers keep no static and their structs have no field.   *)
(***************************************************************************)
\* the invocations the host keeps in flight at once
MaxInFlight == 2

\* the requests dispatched concurrently: calls of tools that do not read the
\* clock, and listings
Invocations(p) ==
    LET Call(name, arguments) ==
            [op |-> "call_tool", req |-> [name |-> name, arguments |-> arguments]]
        List(cursor) == [op |-> "list_tools", req |-> [cursor |-> cursor]]
    IN  {List(None), List(Some(Str(<<"n", "e", "x", "t">>)))} \cup
        (IF p = "calculator"
         THEN {Call(Str(<<"a", "d", "d">>), Some(Str(<<"{", "\"", "a", "\"", ":", "2", ",", "\"", "b", "\"", ":", "3", "}">>))),
               Call(Str(<<"d", "i", "v", "i", "d", "e">>), Some(Str(<<"{", "\"", "a", "\"", ":", "1", "0", ",", "\"", "b", "\"", ":", "0", "}">>))),
               Call(Str(<<"m", "u", "l", "t", "i", "p", "l", "y">>), None),
               Call(Str(<<"r", "e", "v", "e", "r", "s", "e">>), Some(Str(<<"{", "\"", "t", "e", "x", "t", "\"", ":", "\"", "h", "i", "\"", "}">>)))}
         ELSE IF p = "string-utils"
         THEN {Call(Str(<<"r", "e", "v", "e", "r", "s", "e">>), Some(Str(<<"{", "\"", "t", "e", "x", "t", "\"", ":", "\"", "h", "e", "l", "l", "o", "\"", "}">>))),
               Call(Str(<<"u", "p", "p", "e", "r", "c", "a", "s", "e">>), Some(Str(<<"{", "\"", "t", "e", "x", "t", "\"", ":", "\"", "h", "i", "\"", "}">>))),
               Call(Str(<<"w", "o", "r", "d", "_", "c", "o", "u", "n", "t">>), Some(Str(<<"{", "\"", "t", "e", "x", "t", "\"", ":", "\"", "1", "2", " ", "3", "4", "\"", "}">>))),
               Call(Str(<<"l", "o", "w", "e", "r", "c", "a", "s", "e">>), Some(Str(<<"n", "o", "t", " ", "j", "s", "o", "n">>)))}
         ELSE {Call(Str(<<"b", "a", "s", "e", "6", "4", "_", "e", "n", "c", "o", "d", "e">>), Some(Str(<<"{", "\"", "t", "e", "x", "t", "\"", ":", "\"", "h", "i", "\"", "}">>))),
               Call(Str(<<"b", "a", "s", "e", "6", "4", "_", "d", "e", "c", "o", "d", "e">>), Some(Str(<<"{", "\"", "t", "e", "x", "t", "\"", ":", "\"", "a", "G", "k", "=", "\"", "}">>))),
               Call(Str(<<"b", "a", "s", "e", "6", "4", "_", "d", "e", "c", "o", "d", "e">>), Some(Str(<<"{", "\"", "t", "e", "x", "t", "\"", ":", "\"", "/", "w", "=", "=", "\"", "}">>))),
               Call(Str(<<"a", "d", "d">>), Some(Str(<<"{", "\"", "a", "\"", ":", "2", ",", "\"", "b", "\"", ":", "3", "}">>)))})

\* parse_args or parse_text_arg, the one the functions of provider p call on
\* the arguments of the request
ParsedArguments(p, arguments) ==
    IF p = "calculator" THEN parse_args(arguments)
    ELSE IF p = "string-utils" THEN str_parse_text_arg(arguments)
    ELSE sys_parse_text_arg(arguments)

\* what the function that call_tool of provider p calls for the tool returns
\* once its arguments are parsed
MatchArms(p, name, parsed) ==
    IF p = "calculator"
    THEN (IF name = Str(<<"a", "d", "d">>) THEN operation_match(parsed, "add")
          ELSE IF name = Str(<<"s", "u", "b", "t", "r", "a", "c", "t">>)
          THEN operation_match(parsed, "subtract")
          ELSE IF name = Str(<<"m", "u", "l", "t", "i", "p", "l", "y">>)
          THEN operation_match(parsed, "multiply")
          ELSE divide_match(parsed))
    ELSE IF p = "string-utils"
    THEN (IF name = Str(<<"u", "p", "p", "e", "r", "c", "a", "s", "e">>) THEN uppercase_match(parsed)
          ELSE IF name = Str(<<"l", "o", "w", "e", "r", "c", "a", "s", "e">>) THEN lowercase_match(parsed)
          ELSE IF name = Str(<<"r", "e", "v", "e", "r", "s", "e">>) THEN reverse_match(parsed)
          ELSE word_count_match(parsed))
    ELSE (IF name = Str(<<"b", "a", "s", "e", "6", "4", "_", "e", "n", "c", "o", "d", "e">>)
          THEN base64_encode_match(parsed)
          ELSE base64_decode_match(parsed))

ConcurrentInit ==
    /\ provider \in Providers
    /\ pc = [s \in 1..MaxInFlight |-> "idle"]
    /\ request = [s \in 1..MaxInFlight |-> None]
    /\ response = [s \in 1..MaxInFlight |-> None]
    /\ locals = [s \in 1..MaxInFlight |-> None]
    /\ op = "none"
    /\ clock = <<>>
    /\ served = 0

\* the host calls an export of the provider
Dispatch ==
    \E s \in 1..MaxInFlight, inv \in Invocations(provider) :
        /\ pc[s] = "idle"
        /\ pc' = [pc EXCEPT ![s] = "running"]
        /\ request' = [request EXCEPT ![s] = inv]
        /\ UNCHANGED <<provider, op, response, clock, locals, served>>

\* list_tools builds the catalog and returns it
ListTools ==
    \E s \in 1..MaxInFlight :
        /\ pc[s] = "running"
        /\ request[s].op = "list_tools"
        /\ pc' = [pc EXCEPT ![s] = "done"]
        /\ response' = [response EXCEPT ![s] =
              [fault |-> FALSE,
               ret |-> IF provider = "calculator" THEN calc_list_tools(request[s].req)
                       ELSE IF provider = "string-utils" THEN str_list_tools(request[s].req)
                       ELSE sys_list_tools(request[s].req)]]
        /\ UNCHANGED <<provider, op, request, clock, locals, served>>

\* call_tool matches a name that is none of the provider's tools: the last
\* arm, None
NotMine ==
    \E s \in 1..MaxInFlight :
        /\ pc[s] = "running"
        /\ request[s].op = "call_tool"
        /\ request[s].req.name \notin ToolNames(ProviderTools(provider))
        /\ pc' = [pc EXCEPT ![s] = "done"]
        /\ response' = [response EXCEPT ![s] = [fault |-> FALSE, ret |-> None]]
        /\ UNCHANGED <<provider, op, request, clock, locals, served>>

\* a parse that leaves its result in a static all invocations share
ParseArgumentsStatic ==
    \E s \in 1..MaxInFlight :
        /\ pc[s] = "running"
        /\ request[s].op = "call_tool"
        /\ request[s].req.name \in ParameterTools(provider)
        /\ pc' = [pc EXCEPT ![s] = "parsed"]
        /\ locals' = [t \in 1..MaxInFlight |->
                         ParsedArguments(provider, request[s].req.arguments)]
        /\ UNCHANGED <<provider, op, request, response, clock, served>>

\* call_tool matches the name of a tool with parameters and the function it
\* calls parses the arguments of the request: the result is that function's
\* own local
ParseArguments ==
    \E s \in 1..MaxInFlight :
        /\ pc[s] = "running"
        /\ request[s].op = "call_tool"
        /\ request[s].req.name \in ParameterTools(provider)
        /\ pc' = [pc EXCEPT ![s] = "parsed"]
        /\ locals' = [locals EXCEPT ![s] =
                         ParsedArguments(provider, request[s].req.arguments)]
        /\ UNCHANGED <<provider, op, request, response, clock, served>>

\* the function matches on what it parsed and returns, and call_tool wraps
\* the result in Some
Finish ==
    \E s \in 1..MaxInFlight :
        /\ pc[s] = "parsed"
        /\ pc' = [pc EXCEPT ![s] = "done"]
        /\ response' = [response EXCEPT ![s] =
              [fault |-> FALSE,
               ret |-> Some(MatchArms(provider, request[s].req.name, locals[s]))]]
        /\ UNCHANGED <<provider, op, request, clock, locals, served>>

\* the host takes the result; the locals of the invocation are gone
Collect ==
    \E s \in 1..MaxInFlight :
        /\ pc[s] = "done"
        /\ pc' = [pc EXCEPT ![s] = "idle"]
        /\ request' = [request EXCEPT ![s] = None]
        /\ response' = [response EXCEPT ![s] = None]
        /\ locals' = [locals EXCEPT ![s] = None]
        /\ UNCHANGED <<provider, op, clock, served>>

ConcurrentNext ==
    \/ Dispatch
    \/ ListTools
    \/ NotMine
    \/ ParseArguments
    \/ Finish
    \/ Collect

Concurrent == ConcurrentInit /\ [][ConcurrentNext]_vars

\* C14: among invocations dispatched concurrently to one provider, whose
\* steps interleave in every way, each completed call of a clock-independent
\* tool holds exactly the result call_tool returns for its request when it
\* runs alone, and every completed listing holds the provider's tools under
\* their declared names, the same in every invocation: no invocation sees
\* what another one wrote.
ConcurrentIsolation ==
    \A s \in 1..MaxInFlight :
        pc[s] = "done" =>
            /\ ~response[s].fault
            /\ request[s].op = "call_tool" =>
                  response[s].ret =
                      (IF provider = "calculator" THEN calc_call_tool(request[s].req)
                       ELSE IF provider = "string-utils" THEN str_call_tool(request[s].req)
                       ELSE sys_call_tool(request[s].req, <<>>).ret)
            /\ request[s].op = "list_tools" =>
                  LET listed == IF provider = "calculator" THEN response[s].ret.val
                                ELSE response[s].ret
                  IN  /\ [i \in 1..Len(listed.tools) |-> listed.tools[i].name]
                            = DeclaredNames(provider)
                      /\ listed.next_cursor = None
                      /\ \A t \in 1..MaxInFlight :
                            (pc[t] = "done" /\ request[t].op = "list_tools") =>
                                response[t] = response[s]

\* the calculator has completed add and divide side by side, each with its own
\* result, and both had parsed their arguments before either returned: each
\* still holds the operands it parsed
ConcurrentWitness ==
    /\ provider = "calculator"
    /\ pc = [s \in 1..MaxInFlight |-> IF s <= 2 THEN "done" ELSE "idle"]
    /\ request[1].op = "call_tool"
    /\ request[2].op = "call_tool"
    /\ request[1].req.name = Str(<<"a", "d", "d">>)
    /\ request[2].req.name = Str(<<"d", "i", "v", "i", "d", "e">>)
    /\ locals[1].ok
    /\ locals[2].ok
    /\ locals[1] # locals[2]
    /\ Unwrap(response[1].ret).content[1].text = Str(<<"5">>)
    /\ Unwrap(response[2].ret).is_error = Some(TRUE)

\* {"text": t} as a client writes it: the text as a JSON string literal, with
\* the quote, the backslash and the control characters escaped
TextArgument(t) ==
    LET Escaped(c) ==
            IF c = 34 \/ c = 92 THEN <<92, c>>
            ELSE IF c < 32 THEN Str(<<"\\", "u", "0", "0">>) \o <<HexDigit(c \div 16), HexDigit(c % 16)>>
            ELSE <<c>>
    IN  Str(<<"{", "\"", "t", "e", "x", "t", "\"", ":", "\"">>) \o Concat([i \in 1..Len(t) |-> Escaped(t[i])]) \o Str(<<"\"", "}">>)

\* the call answered is string-utils' tool `name`, on arguments that hold a text
StringToolOnText(name) ==
    CallAnswered /\ provider = "string-utils" /\ request.name = name /\ ValidArguments

\* C15: reverse succeeds on every text, its result holds the characters of the
\* text in the opposite order (characters, not bytes), and reverse called on
\* that result succeeds with the text itself.
ReverseInvolution ==
    StringToolOnText(Str(<<"r", "e", "v", "e", "r", "s", "e">>)) =>
        /\ IsSuccessResult
        /\ Len(ResultText) = Len(TextField)
        /\ \A i \in 1..Len(TextField) : ResultText[i] = TextField[Len(TextField) + 1 - i]
        /\ from_utf8(as_bytes(ResultText)) = Some(ResultText)
        /\ execute_reverse(Some(TextArgument(ResultText))) = str_success_result(TextField)

\* reverse has answered on a text that begins with a four-byte character
ReverseInvolutionWitness ==
    /\ StringToolOnText(Str(<<"r", "e", "v", "e", "r", "s", "e">>))
    /\ TextField = <<128512>> \o Str(<<" ", "o", "k">>)
    /\ ResultText = Str(<<"k", "o", " ">>) \o <<128512>>

\* the characters the tables of case mappings name, and the ASCII characters:
\* every other character is its own uppercase and lowercase
CaseTableCharacters ==
    (0..127) \cup {304} \cup {r[1] : r \in UPPERCASE_TABLE_MULTI}
        \cup UNION {{r[1] + k * r[3] : k \in 0..((r[2] - r[1]) \div r[3])} :
                       r \in LOWERCASE_TABLE \cup UPPERCASE_TABLE}

\* each of the two mappings of characters leaves alone every character it
\* produces, and the lowercase of no character is the capital sigma, the one
\* character str::to_lowercase maps by its neighbours
CaseMappingsSettle ==
    \A c \in CaseTableCharacters :
        /\ \A i \in 1..Len(to_uppercase_char(c)) :
              to_uppercase_char(to_uppercase_char(c)[i]) = <<to_uppercase_char(c)[i]>>
        /\ \A i \in 1..Len(to_lowercase_char(c)) :
              /\ to_lowercase_char(c)[i] # 931
              /\ to_lowercase_char(to_lowercase_char(c)[i]) = <<to_lowercase_char(c)[i]>>

\* C16: uppercase and lowercase succeed on every text, and each of them called
\* on its own result returns that result again; this holds of every text,
\* the two mappings of characters leaving alone whatever they produce.
CaseIdempotent ==
    /\ CaseMappingsSettle
    /\ StringToolOnText(Str(<<"u", "p", "p", "e", "r", "c", "a", "s", "e">>)) =>
          /\ IsSuccessResult
          /\ execute_uppercase(Some(TextArgument(ResultText))) = Unwrap(response.ret)
    /\ StringToolOnText(Str(<<"l", "o", "w", "e", "r", "c", "a", "s", "e">>)) =>
          /\ IsSuccessResult
          /\ execute_lowercase(Some(TextArgument(ResultText))) = Unwrap(response.ret)

\* uppercase has answered on a text whose sharp s becomes two letters
CaseIdempotentWitness ==
    /\ StringToolOnText(Str(<<"u", "p", "p", "e", "r", "c", "a", "s", "e">>))
    /\ TextField = Str(<<"s", "t", "r", "a">>) \o <<223>> \o Str(<<"e">>)
    /\ ResultText = Str(<<"S", "T", "R", "A", "S", "S", "E">>)

\* the characters with the Unicode property White_Space
WhiteSpace ==
    {9, 10, 11, 12, 13, 32, 133, 160, 5760, 8232, 8233, 8239, 8287, 12288} \cup (8192..8202)

\* the tokens left when the text from position i on is cut at every run of
\* whitespace; inside tells whether position i - 1 lies in a token
RECURSIVE TokenCount(_, _, _)
TokenCount(t, i, inside) ==
    IF i > Len(t) THEN 0
    ELSE IF t[i] \in WhiteSpace THEN TokenCount(t, i + 1, FALSE)
    ELSE (IF inside THEN 0 ELSE 1) + TokenCount(t, i + 1, TRUE)

\* C17: word_count succeeds on every text with "<n> words", n the number of
\* non-empty tokens between runs of whitespace: 0 for the empty and for a
\* whitespace-only text, 3 for "a b  c", and "1 words" for a single token.
WordCountContract ==
    StringToolOnText(Str(<<"w", "o", "r", "d", "_", "c", "o", "u", "n", "t">>)) =>
        /\ IsSuccessResult
        /\ ResultText = NatToString(TokenCount(TextField, 1, FALSE)) \o Str(<<" ", "w", "o", "r", "d", "s">>)
        /\ TextField \in {<<>>, Str(<<" ", " ", " ">>)} => ResultText = Str(<<"0", " ", "w", "o", "r", "d", "s">>)
        /\ TextField = Str(<<"a", " ", "b", " ", " ", "c">>) => ResultText = Str(<<"3", " ", "w", "o", "r", "d", "s">>)
        /\ TextField = Str(<<" ", " ", "a", " ", " ", "b", " ">>) => ResultText = Str(<<"2", " ", "w", "o", "r", "d", "s">>)
        /\ TextField \in {Str(<<"a">>), Str(<<"h", "i">>)} => ResultText = Str(<<"1", " ", "w", "o", "r", "d", "s">>)

\* word_count has answered "3 words" on a text with a doubled space
WordCountWitness ==
    /\ StringToolOnText(Str(<<"w", "o", "r", "d", "_", "c", "o", "u", "n", "t">>))
    /\ TextField = Str(<<"a", " ", "b", " ", " ", "c">>)
    /\ ResultText = Str(<<"3", " ", "w", "o", "r", "d", "s">>)

\* the call answered is system-info's tool `name`, on arguments that hold a text
SystemToolOnText(name) ==
    CallAnswered /\ provider = "system-info" /\ request.name = name /\ ValidArguments

\* C18: base64_encode succeeds on every text s with some text e, and
\* base64_decode called on e succeeds with exactly s.
Base64RoundTrip ==
    SystemToolOnText(Str(<<"b", "a", "s", "e", "6", "4", "_", "e", "n", "c", "o", "d", "e">>)) =>
        /\ IsSuccessResult
        /\ execute_base64_decode(Some(TextArgument(ResultText))) = sys_success_result(TextField)

\* base64_encode has answered on a text whose encoding uses the symbol '+'
Base64RoundTripWitness ==
    /\ SystemToolOnText(Str(<<"b", "a", "s", "e", "6", "4", "_", "e", "n", "c", "o", "d", "e">>))
    /\ TextField = <<128512>> \o Str(<<" ", "o", "k">>)
    /\ ResultText = Str(<<"8", "J", "+", "Y", "g", "C", "B", "v", "a", "w", "=", "=">>)

\* the bytes a canonical base64 text b stands for: three to a quad, less the
\* padded ones
PaddedBytes(b) ==
    LET n == Len(b)
        pads == Cardinality({i \in 1..n : b[i] = 61})
        Val(c) == IF c \in 65..90 THEN c - 65
                  ELSE IF c \in 97..122 THEN c - 71
                  ELSE IF c \in 48..57 THEN c + 4
                  ELSE IF c = 43 THEN 62
                  ELSE IF c = 47 THEN 63
                  ELSE 0
        Quad(g) ==
            LET K(v) == <<v \div 65536, (v \div 256) % 256, v % 256>>
            IN  K(Val(b[4 * g - 3]) * 262144 + Val(b[4 * g - 2]) * 4096
                    + Val(b[4 * g - 1]) * 64 + Val(b[4 * g]))
    IN  SubSeq(Concat([g \in 1..(n \div 4) |-> Quad(g)]), 1, 3 * (n \div 4) - pads)

\* C19: base64_decode fails in two ways, both with is_error = true and never
\* with a success: a text that is valid base64 but stands for bytes that are
\* no UTF-8 text gets "Decoded data is not valid UTF-8 text"; a text that is
\* not valid base64 gets another message, one that starts "Invalid base64: ".
DecodeFailures ==
    SystemToolOnText(Str(<<"b", "a", "s", "e", "6", "4", "_", "d", "e", "c", "o", "d", "e">>)) =>
        LET b == as_bytes(TextField)
        IN  /\ (CanonicalBase64(b) /\ ~IsSome(from_utf8(PaddedBytes(b)))) =>
                  /\ IsFailureResult
                  /\ ResultText = Str(<<"D", "e", "c", "o", "d", "e", "d", " ", "d", "a", "t", "a", " ", "i", "s", " ", "n", "o", "t", " ", "v", "a", "l", "i", "d", " ", "U", "T", "F", "-", "8", " ", "t", "e", "x", "t">>)
            /\ ~CanonicalBase64(b) =>
                  /\ IsFailureResult
                  /\ IsPrefix(Str(<<"I", "n", "v", "a", "l", "i", "d", " ", "b", "a", "s", "e", "6", "4", ":", " ">>), ResultText)
                  /\ ResultText # Str(<<"D", "e", "c", "o", "d", "e", "d", " ", "d", "a", "t", "a", " ", "i", "s", " ", "n", "o", "t", " ", "v", "a", "l", "i", "d", " ", "U", "T", "F", "-", "8", " ", "t", "e", "x", "t">>)
            /\ (CanonicalBase64(b) /\ IsSome(from_utf8(PaddedBytes(b)))) =>
                  /\ IsSuccessResult
                  /\ ResultText = Unwrap(from_utf8(PaddedBytes(b)))

\* base64_decode has answered on /w==, valid base64 of the single byte 0xFF
DecodeFailuresWitness ==
    /\ SystemToolOnText(Str(<<"b", "a", "s", "e", "6", "4", "_", "d", "e", "c", "o", "d", "e">>))
    /\ TextField = Str(<<"/", "w", "=", "=">>)
    /\ PaddedBytes(as_bytes(TextField)) = <<255>>
    /\ IsFailureResult
    /\ ResultText = Str(<<"D", "e", "c", "o", "d", "e", "d", " ", "d", "a", "t", "a", " ", "i", "s", " ", "n", "o", "t", " ", "v", "a", "l", "i", "d", " ", "U", "T", "F", "-", "8", " ", "t", "e", "x", "t">>)

\* C20: base64_encode succeeds on every text, the empty one included; its
\* result is the standard-alphabet base64 of the text's bytes, padded with
\* '=' to 4 * ceiling(byte length / 3) characters, and "hi" gives "aGk=".
EncodeShape ==
    SystemToolOnText(Str(<<"b", "a", "s", "e", "6", "4", "_", "e", "n", "c", "o", "d", "e">>)) =>
        LET n == Len(as_bytes(TextField))
            e == ResultText
            pads == {i \in 1..Len(e) : e[i] = 61}
        IN  /\ IsSuccessResult
            /\ Len(e) = 4 * ((n + 2) \div 3)
            /\ \A i \in 1..Len(e) :
                  e[i] \in (65..90) \cup (97..122) \cup (48..57) \cup {43, 47, 61}
            /\ pads = (Len(e) - ((3 - (n % 3)) % 3) + 1)..Len(e)
            /\ CanonicalBase64(e)
            /\ PaddedBytes(e) = as_bytes(TextField)
            /\ TextField = Str(<<"h", "i">>) => e = Str(<<"a", "G", "k", "=">>)
            /\ TextField = <<>> => e = <<>>

\* base64_encode has answered aGk= on the text hi
EncodeShapeWitness ==
    /\ SystemToolOnText(Str(<<"b", "a", "s", "e", "6", "4", "_", "e", "n", "c", "o", "d", "e">>))
    /\ request.arguments = Some(Str(<<"{", "\"", "t", "e", "x", "t", "\"", ":", "\"", "h", "i", "\"", "}">>))
    /\ IsSuccessResult
    /\ ResultText = Str(<<"a", "G", "k", "=">>)

\* C21: in the catalog a provider returns from list_tools no two entries bear
\* the same name.
UniqueToolNames ==
    ListAnswered =>
        \A i, j \in 1..Len(Listed.tools) :
            Listed.tools[i].name = Listed.tools[j].name => i = j

\* string-utils has listed its four tools under four names
UniqueToolNamesWitness ==
    /\ ListAnswered
    /\ provider = "string-utils"
    /\ Len(Listed.tools) = 4
    /\ Cardinality(ToolNames(Listed.tools)) = 4

\* C22: call_tool of a provider returns a result for a name exactly when that
\* very name, compared without folding case or trimming, is one the provider's
\* list_tools returns.
DispatchMatchesCatalog ==
    CallAnswered => (HasResult <=> request.name \in ToolNames(ProviderTools(provider)))

\* system-info lists random_uuid, yet the call made before the epoch ends
\* without a result
ListedRandomUuidUnanswered ==
    /\ CallAnswered
    /\ provider = "system-info"
    /\ request.name = Str(<<"r", "a", "n", "d", "o", "m", "_", "u", "u", "i", "d">>)
    /\ request.name \in ToolNames(sys_list_tools([cursor |-> None]).tools)
    /\ clock[1].before
    /\ ~HasResult

\* the one diagnostic the validation of the arguments owes: for absent
\* arguments, else for text that is no JSON (any text with the prefix), else
\* for the first required field, in the order a, b, that is bad
OwedDiagnostic(text) ==
    IF ~ArgumentsPresent THEN text = MissingArgumentsText
    ELSE IF ~ArgumentsJson.ok
    THEN IsPrefix(InvalidJsonText, text) /\ Len(text) > Len(InvalidJsonText)
    ELSE IF provider # "calculator" THEN text = ParameterText(Str(<<"t", "e", "x", "t">>))
    ELSE IF Str(<<"a">>) \in BadFields THEN text = ParameterText(Str(<<"a">>))
    ELSE text = ParameterText(Str(<<"b">>))

\* C23: a tool that takes parameters reports exactly one diagnostic for bad
\* arguments, the first that applies of: absent arguments, invalid JSON, a bad
\* parameter ('a' before 'b' for the calculator); the operation, divide's zero
\* test included, runs only on arguments that pass all of these, so divide
\* with b = 0 and a bad 'a' reports 'a' and not the division by zero.
ValidationOrder ==
    NeedsParameters =>
        /\ ~ValidArguments =>
              /\ IsFailureResult
              /\ OwedDiagnostic(ResultText)
              /\ ResultText # Str(<<"E", "r", "r", "o", "r", ":", " ", "D", "i", "v", "i", "s", "i", "o", "n", " ", "b", "y", " ", "z", "e", "r", "o">>)
        /\ ValidArguments =>
              /\ IsSuccessResult \/ DomainFailure
              /\ ResultText # MissingArgumentsText
              /\ ~IsPrefix(InvalidJsonText, ResultText)
              /\ \A f \in RequiredFields(provider) : ResultText # ParameterText(f)
        /\ (provider = "calculator" /\ request.name = Str(<<"d", "i", "v", "i", "d", "e">>) /\ ValidArguments
                /\ F64IsZero(NumberField(Str(<<"b">>)))) =>
              IsFailureResult /\ ResultText = Str(<<"E", "r", "r", "o", "r", ":", " ", "D", "i", "v", "i", "s", "i", "o", "n", " ", "b", "y", " ", "z", "e", "r", "o">>)

\* divide is given a quoted a and b = 0, and reports the parameter a
ValidationOrderWitness ==
    /\ NeedsParameters
    /\ provider = "calculator"
    /\ request.name = Str(<<"d", "i", "v", "i", "d", "e">>)
    /\ request.arguments = Some(Str(<<"{", "\"", "a", "\"", ":", "\"", "x", "\"", ",", "\"", "b", "\"", ":", "0", "}">>))
    /\ IsFailureResult
    /\ ResultText = ParameterText(Str(<<"a">>))

(***************************************************************************)
(* Calls of the clock tools.  Under ClockCalls the host keeps several      *)
(* calls of system-info's timestamp and random_uuid in flight.  Each call  *)
(* reads the clock when it comes to it, random_uuid once for each argument *)
(* of its format!, and the readings of the calls interleave; pc, request,  *)
(* clock, locals and response hold one entry per call, clock the readings  *)
(* the call has taken and locals the arguments it has evaluated; served    *)
(* counts the calls that have returned or panicked.                        *)
(***************************************************************************)
\* what SystemTime::now() may return at a reading: a time before the epoch,
\* the end of a second and the start of the next
ClockTimes ==
    {Reading(TRUE, 1, 0), Reading(FALSE, 1700000000, 999999999),
     Reading(FALSE, 1700000001, 0)}

ClockCallsInit ==
    /\ provider = "system-info"
    /\ op = "call_tool"
    /\ pc = [s \in 1..MaxInFlight |-> "idle"]
    /\ request = [s \in 1..MaxInFlight |-> None]
    /\ clock = [s \in 1..MaxInFlight |-> <<>>]
    /\ locals = [s \in 1..MaxInFlight |-> <<>>]
    /\ response = [s \in 1..MaxInFlight |-> None]
    /\ served = 0

\* the host calls call_tool with the name of a clock tool, with or without
\* arguments
Enter ==
    \E s \in 1..MaxInFlight, name \in {Str(<<"t", "i", "m", "e", "s", "t", "a", "m", "p">>), Str(<<"r", "a", "n", "d", "o", "m", "_", "u", "u", "i", "d">>)},
       arguments \in {None, Some(Str(<<"{", "\"", "t", "e", "x", "t", "\"", ":", "\"", "h", "i", "\"", "}">>))} :
        /\ pc[s] = "idle"
        /\ served < MaxServed
        /\ pc' = [pc EXCEPT ![s] = "running"]
        /\ request' = [request EXCEPT ![s] = [name |-> name, arguments |-> arguments]]
        /\ UNCHANGED <<provider, op, clock, locals, response, served>>

\* execute_timestamp reads the clock and returns
Timestamp ==
    \E s \in 1..MaxInFlight, now \in ClockTimes :
        /\ pc[s] = "running"
        /\ request[s].name = Str(<<"t", "i", "m", "e", "s", "t", "a", "m", "p">>)
        /\ clock' = [clock EXCEPT ![s] = <<now>>]
        /\ response' = [response EXCEPT ![s] =
              [fault |-> FALSE, ret |-> Some(execute_timestamp(now))]]
        /\ pc' = [pc EXCEPT ![s] = "done"]
        /\ served' = served + 1
        /\ UNCHANGED <<provider, op, request, locals>>

\* execute_random_uuid evaluates the next argument of its format!, which
\* reads the clock: the argument joins the ones evaluated, or the call panics
RandomArgument ==
    \E s \in 1..MaxInFlight, now \in ClockTimes :
        /\ pc[s] = "running"
        /\ request[s].name = Str(<<"r", "a", "n", "d", "o", "m", "_", "u", "u", "i", "d">>)
        /\ Len(locals[s]) < 5
        /\ clock' = [clock EXCEPT ![s] = Append(@, now)]
        /\ LET a == uuid_argument(Len(locals[s]) + 1, now) IN
           IF a.ok
           THEN /\ locals' = [locals EXCEPT ![s] = Append(@, a.v)]
                /\ UNCHANGED <<pc, response, served>>
           ELSE /\ pc' = [pc EXCEPT ![s] = "done"]
                /\ response' = [response EXCEPT ![s] = [fault |-> TRUE]]
                /\ served' = served + 1
                /\ UNCHANGED locals
        /\ UNCHANGED <<provider, op, request>>

\* execute_random_uuid formats its five arguments and returns
FormatUuid ==
    \E s \in 1..MaxInFlight :
        /\ pc[s] = "running"
        /\ request[s].name = Str(<<"r", "a", "n", "d", "o", "m", "_", "u", "u", "i", "d">>)
        /\ Len(locals[s]) = 5
        /\ response' = [response EXCEPT ![s] =
              [fault |-> FALSE, ret |-> Some(sys_success_result(uuid_format(locals[s])))]]
        /\ pc' = [pc EXCEPT ![s] = "done"]
        /\ served' = served + 1
        /\ UNCHANGED <<provider, op, request, clock, locals>>

\* the host takes the outcome
Take ==
    \E s \in 1..MaxInFlight :
        /\ pc[s] = "done"
        /\ pc' = [pc EXCEPT ![s] = "idle"]
        /\ request' = [request EXCEPT ![s] = None]
        /\ clock' = [clock EXCEPT ![s] = <<>>]
        /\ locals' = [locals EXCEPT ![s] = <<>>]
        /\ response' = [response EXCEPT ![s] = None]
        /\ UNCHANGED <<provider, op, served>>

ClockCallsNext ==
    \/ Enter
    \/ Timestamp
    \/ RandomArgument
    \/ FormatUuid
    \/ Take

ClockCalls == ClockCallsInit /\ [][ClockCallsNext]_vars

\* call s of the tool `name` has ended
Ended(s, name) == pc[s] = "done" /\ request[s].name = name

\* C24: the outcome of random_uuid depends on nothing but the clock readings
\* the call took: it is what one uninterrupted call_tool makes of exactly
\* these readings, and two calls that took the same readings end alike, with
\* the same id, however many calls ended before them, in whatever order, and
\* however their readings interleaved with those of other calls.
UuidStateless ==
    \A s \in 1..MaxInFlight :
        Ended(s, Str(<<"r", "a", "n", "d", "o", "m", "_", "u", "u", "i", "d">>)) =>
            /\ clock[s] \in ClockRuns(request[s].name, ClockTimes)
            /\ response[s] = sys_call_tool(request[s], clock[s])
            /\ \A t \in 1..MaxInFlight :
                  (Ended(t, Str(<<"r", "a", "n", "d", "o", "m", "_", "u", "u", "i", "d">>)) /\ clock[s] = clock[t]) =>
                      /\ response[s] = response[t]
                      /\ ~response[s].fault =>
                            Unwrap(response[s].ret).content[1].text
                                = Unwrap(response[t].ret).content[1].text

\* two calls of random_uuid have taken the same readings after the epoch, not
\* all at the same time, one call having ended before them, and hold the same
\* id
UuidStatelessWitness ==
    /\ Ended(1, Str(<<"r", "a", "n", "d", "o", "m", "_", "u", "u", "i", "d">>))
    /\ Ended(2, Str(<<"r", "a", "n", "d", "o", "m", "_", "u", "u", "i", "d">>))
    /\ clock[1] = clock[2]
    /\ Len(clock[1]) = 5
    /\ clock[1][1] # clock[1][5]
    /\ \A i \in 1..5 : ~clock[1][i].before
    /\ served = 3
    /\ ~response[1].fault
    /\ Len(Unwrap(response[1].ret).content[1].text) = 36
    /\ response[1] = response[2]

\* the call answered is system-info's random_uuid and every reading of the
\* clock it took lies at or after the epoch
RandomUuidAfterEpoch ==
    /\ CallAnswered
    /\ provider = "system-info"
    /\ request.name = Str(<<"r", "a", "n", "d", "o", "m", "_", "u", "u", "i", "d">>)
    /\ \A i \in 1..Len(clock) : ~clock[i].before

\* C25: with every clock reading at or after the epoch random_uuid succeeds
\* with 36 characters: groups of 8, 4, 4, 4 and 12 lowercase hexadecimal
\* digits between hyphens, the third group beginning with 4 and the fourth
\* with 8, 9, a or b; no group outgrows its width.
UuidShape ==
    RandomUuidAfterEpoch =>
        /\ IsSuccessResult
        /\ Len(clock) = 5
        /\ Len(ResultText) = 36
        /\ \A i \in 1..36 :
              IF i \in {9, 14, 19, 24} THEN ResultText[i] = 45
              ELSE ResultText[i] \in (48..57) \cup (97..102)
        /\ ResultText[15] = 52
        /\ ResultText[20] \in {56, 57, 97, 98}

\* random_uuid has answered after five readings of the clock at the epoch
\* itself, where every hash is zero
UuidShapeWitness ==
    /\ RandomUuidAfterEpoch
    /\ \A i \in 1..5 : clock[i] = Reading(FALSE, 0, 0)
    /\ IsSuccessResult
    /\ ResultText = Str(<<"0", "0", "0", "0", "0", "0", "0", "0", "-", "0", "0", "0", "0", "-", "4", "0", "0", "0", "-", "8", "0", "0", "0", "-", "0", "0", "0", "0", "0", "0", "0", "0", "0", "0", "0", "0">>)

\* a natural number in decimal, most significant digit first
RECURSIVE Decimal(_)
Decimal(n) == IF n < 10 THEN <<48 + n>> ELSE Decimal(n \div 10) \o <<48 + (n % 10)>>

\* the number a text of decimal digits writes
RECURSIVE DecimalValue(_)
DecimalValue(t) ==
    IF t = <<>> THEN 0 ELSE 10 * DecimalValue(SubSeq(t, 1, Len(t) - 1)) + (t[Len(t)] - 48)

\* call s of timestamp has ended and its reading lies at or after the epoch
TimestampAfterEpoch(s) == Ended(s, Str(<<"t", "i", "m", "e", "s", "t", "a", "m", "p">>)) /\ ~clock[s][1].before

\* reading a is not later than reading b
NotLater(a, b) == a.secs < b.secs \/ (a.secs = b.secs /\ a.nanos <= b.nanos)

\* C26: with a reading at or after the epoch timestamp succeeds (is_error not
\* set) with the whole seconds since the epoch in decimal, the sub-second
\* part dropped; it depends on nothing but the reading, and of two calls the
\* one with the later reading never returns the smaller value.
TimestampContract ==
    \A s \in 1..MaxInFlight :
        TimestampAfterEpoch(s) =>
            /\ Len(clock[s]) = 1
            /\ ~response[s].fault
            /\ IsSome(response[s].ret)
            /\ OneText(Unwrap(response[s].ret))
            /\ Unwrap(response[s].ret).is_error = None
            /\ Unwrap(response[s].ret).content[1].text = Decimal(clock[s][1].secs)
            /\ \A t \in 1..MaxInFlight :
                  (TimestampAfterEpoch(t) /\ NotLater(clock[s][1], clock[t][1])) =>
                      /\ DecimalValue(Unwrap(response[s].ret).content[1].text)
                            <= DecimalValue(Unwrap(response[t].ret).content[1].text)
                      /\ clock[s] = clock[t] => response[s] = response[t]

\* two calls of timestamp, one without and one with arguments, read the clock
\* just before and at the turn of a second
TimestampContractWitness ==
    /\ TimestampAfterEpoch(1)
    /\ TimestampAfterEpoch(2)
    /\ request[1].arguments = None
    /\ request[2].arguments # None
    /\ clock[1] = <<Reading(FALSE, 1700000000, 999999999)>>
    /\ clock[2] = <<Reading(FALSE, 1700000001, 0)>>
    /\ Unwrap(response[1].ret).content[1].text = Str(<<"1", "7", "0", "0", "0", "0", "0", "0", "0", "0">>)
    /\ Unwrap(response[2].ret).content[1].text = Str(<<"1", "7", "0", "0", "0", "0", "0", "0", "0", "1">>)

=============================================================================
